---- MODULE Spec2Model ----
(***************************************************************************)
(* Hetzner-Web: traffic monitor, alert state machine and rebuild workflow  *)
(* of src/main.py, and the report-state store of                           *)
(* src/automation/telegram_bot.py.                                         *)
(*                                                                         *)
(* Threads of src/main.py (started at main.py:780-783):                    *)
(*   "mon"  _monitor_traffic_loop                                          *)
(*   "bot"  _telegram_bot_loop -> _handle_bot_command (/rebuild)           *)
(*   "api"  the HTTP handler api_rebuild                                   *)
(* Every call to the provider, the DNS service or the notification channel *)
(* is one step; the other threads may run between two such steps.          *)
(*                                                                         *)
(* The aggregation views of src/main.py (_delta_by_name and its callers)   *)
(* and the report texts of the bot are functions of the stored series;     *)
(* each request that computes one is one step.                             *)
(*                                                                         *)
(* Threads of src/automation/telegram_bot.py:                              *)
(*   "report_thread"  the loop of _start_report_thread                     *)
(*   "handler"        the command handlers cmd_report and cmd_reportreset  *)
(* Every read of the report-state file, every opening of it for writing     *)
(* and every json.dump into it is one step.                                *)
(*                                                                         *)
(* The polling loops of both files are also followed on their own, one     *)
(* step per statement of an iteration that can fail, up to the loop's sleep.*)
(***************************************************************************)
EXTENDS Integers, Sequences, FiniteSets, TLC

VARIABLES
  env,           \* what the program is given: listed ids, readings, configurations
  ALERT_STATE,   \* main.py:26, sid -> [last_level, last_outgoing, auto_rebuild]
  REBUILD_LOCKS, \* main.py:27, sid -> holder of the threading.Lock, or Free
  pc,            \* position of each thread
  loc,           \* locals of the rebuild call each thread is in
  cfg,           \* the configuration the monitor loaded for its current pass
  idx,           \* the monitor's position in the server list (0: not in a pass)
  poll,          \* history: what the monitor's latest per-server step did
  notified,      \* history: levels delivered per server in the current rising run
  reset_from,    \* history: last_level a server had when its latest rollback reset it
  report_file,   \* telegram_bot.py:69-70, the report-state file
  now,           \* the wall clock the bot reads
  tpc,           \* position of each thread of the bot
  tloc,          \* locals of the report operation each thread of the bot is in
  written,       \* history: hour key -> the snapshot first persisted under it
  series,        \* the "hourly" series the web views read, in the order of its keys
  view,          \* the latest answer computed from the series
  lpc,           \* position of each polling loop in its iteration
  interval_seconds, \* main.py:617, the monitor loop's local; None while unbound
  wall,          \* the local date and minute the loops read
  lnow,          \* the `now` each scheduling loop read in its current iteration
  SCHEDULE_STATE, \* main.py:28, [last_daily_report]
  last_sent,     \* telegram_bot.py:207, report time -> date of its latest report
  handed,        \* history: <<report, date>> -> reports handed to the channel
  BOT_STATE,     \* main.py:29, [update_offset]
  inbox,         \* the updates Telegram holds for the bot, oldest first
  batch,         \* the locals of the intake loop: chat_id, the answer, the update
  executed       \* history: update_id -> [runs, replies] of its command

\* What the threads of main.py read and write.
mainVars == <<ALERT_STATE, REBUILD_LOCKS, pc, loc, cfg, idx, poll, notified, reset_from>>

\* What the threads of telegram_bot.py read and write.
storeVars == <<report_file, now, tpc, tloc, written>>

\* What the aggregation views of main.py and the reports of the bot compute.
aggVars == <<series, view>>

\* What the two report schedules read and write.
schedVars == <<wall, lnow, SCHEDULE_STATE, last_sent, handed>>

\* What the command intake reads and writes.
botVars == <<BOT_STATE, inbox, batch, executed>>

\* The control state of the polling loops and what they keep.
loopVars == <<lpc, interval_seconds, schedVars, botVars>>

vars == <<env, mainVars, storeVars, aggVars, loopVars>>

\* What only the monitor's own steps change.
monVars == <<cfg, idx, poll, notified, reset_from>>

--------------------------------------------------------------------------
(* Values *)

\* Python's None where a number is expected (last_outgoing, a failed read).
None == -1

Free == "free"

Procs == {"mon", "bot", "api"}

\* The callers of _perform_rebuild: main.py:670 and main.py:726.
LockProcs == {"mon", "bot"}

\* limit_bytes of main.py:624, in units of 1% of the configured limit.
LimitBytes == 100

\* The number of distinct readings above the limit the provider may report.
OverSteps == 1

\* Readings below, between and on the default thresholds, and above the limit.
Readings == {75, 85, 92, 96, 100} \cup {100 + 5 * i : i \in 1..OverSteps}

\* range(3) of main.py:324.
CreateAttempts == 3

DefaultLevels == {80, 90, 95, 100}

\* A configured notify_levels list below and above the default levels.
CustomLevels == {50, 120}

\* The longest notify_levels list.
MaxItems == 3

Max(S) == CHOOSE x \in S : \A y \in S : y <= x

\* The items a configured notify_levels list may hold, as YAML gives them: an
\* integer, a float (value: its tenths), a string of digits (value: the
\* number it spells), a boolean (value: 1 for true), a string that spells no
\* integer, and null.
Item(kind, value) == [kind |-> kind, value |-> value]

Items ==
  {Item("int", -5), Item("int", 0), Item("int", 80), Item("int", 90),
   Item("float", 5), Item("float", 855), Item("str", 90), Item("bool", 1),
   Item("text", 0), Item("none", 0)}

\* A notify_levels setting: a list of items, or a value that is no list (the
\* key is unset, or holds a string such as "80,90").
ListOf(items) == [is_list |-> TRUE, items |-> items]

NotAList == [is_list |-> FALSE, items |-> << >>]

\* A conversion that takes integers only.
int_of_integers(item) ==
  IF item.kind = "int" THEN [ok |-> TRUE, value |-> item.value]
  ELSE [ok |-> FALSE, value |-> 0]

\* main.py:409-412: int(item). An integer and a boolean give their value, a
\* float is cut towards zero, a string of digits is parsed; int() of any
\* other string and of None raises, and the item is passed over.
int(item) ==
  IF item.kind \in {"int", "str", "bool"} THEN [ok |-> TRUE, value |-> item.value]
  ELSE IF item.kind = "float"
    THEN [ok |-> TRUE,
          value |-> IF item.value >= 0 THEN item.value \div 10
                    ELSE -((-item.value) \div 10)]
  ELSE [ok |-> FALSE, value |-> 0]

\* sorted(set(levels)) of main.py:415.
RECURSIVE sorted(_)
sorted(S) ==
  IF S = {} THEN << >>
  ELSE LET least == CHOOSE x \in S : \A y \in S : x <= y
       IN  <<least>> \o sorted(S \ {least})

\* main.py:405-416.
parse_alert_levels(raw_levels) ==
  LET items == raw_levels.items
      levels == {int(items[i]).value : i \in {k \in 1..Len(items) : int(items[k]).ok}}
      positive == {level \in levels : level > 0}
  IN  IF raw_levels.is_list /\ positive # {}
        THEN sorted(positive)
        ELSE <<80, 90, 95, 100>>

\* The levels of a configuration, as the set the monitor looks them up in.
LevelsOf(levels) ==
  LET parsed == parse_alert_levels(ListOf([i \in 1..Len(levels) |-> Item("int", levels[i])]))
  IN  {parsed[i] : i \in 1..Len(parsed)}

\* limit: the traffic limit in bytes that limit_gb of the configuration gives
\* (None: limit_gb is unset, zero or no number).
NoCfg == [enabled |-> FALSE, levels |-> {}, action |-> "", limit |-> None]

Configs ==
  [enabled : BOOLEAN,
   levels : {LevelsOf(sorted(DefaultLevels)), LevelsOf(sorted(CustomLevels))},
   action : {"rebuild", ""},
   limit : {None, LimitBytes}]

\* attempts of update_cloudflare_a_record, main.py:344.
DnsAttempts == 3

\* The locals of a rebuild call. sid: the server id; tries: the failed passes
\* of the retry loop the call is in; result: what rebuild_server returned;
\* deleted: delete_server succeeded; creates: the create requests issued;
\* dns: the outcome of the DNS step ("none": the step was not reached);
\* done: the completion notification was handed to Telegram; success: the
\* success field of the result the call returned ("raised": an exception);
\* image: the image resolved for the replacement (None: not resolved);
\* record: the record name handed to the DNS update (None: none); start, end:
\* what became of the 'rebuild triggered' and of the completion notification
\* ("none": not reached); text: what the completion text says about DNS.
NoLoc == [sid |-> 0, tries |-> 0, result |-> "none", deleted |-> FALSE,
          creates |-> 0, dns |-> "none", done |-> FALSE, success |-> "none",
          image |-> None, record |-> None, start |-> "none", end |-> "none",
          text |-> "none"]

\* cfg: the configuration of the pass; out: the reading; prev, level:
\* last_outgoing and last_level before the step; tried: the level whose
\* notification was handed to Telegram (0: none); sent: the level whose
\* notification was delivered (0: none); called: whether the step went on to
\* call _perform_rebuild; owed, owed_sid: the level that the last poll with a
\* reading should have notified and did not deliver (0: none), and its server.
NoPoll == [sid |-> 0, cfg |-> NoCfg, out |-> None, prev |-> None, level |-> 0,
           tried |-> 0, sent |-> 0, called |-> FALSE, owed |-> 0, owed_sid |-> 0]

\* What a pass knows of the polls before it.
Carried == [NoPoll EXCEPT !.owed = poll.owed, !.owed_sid = poll.owed_sid]

\* setdefault of main.py:640-642.
NewAlertState == [last_level |-> 0, last_outgoing |-> None, auto_rebuild |-> FALSE]

AlertOf(sid) ==
  IF sid \in DOMAIN ALERT_STATE THEN ALERT_STATE[sid] ELSE NewAlertState

\* threading.Lock state of a server id; a lock not yet created is free.
LockOf(sid) ==
  IF sid \in DOMAIN REBUILD_LOCKS THEN REBUILD_LOCKS[sid] ELSE Free

SetFn(f, k, v) == [x \in DOMAIN f \cup {k} |-> IF x = k THEN v ELSE f[x]]

ServerIds == {env.servers[i] : i \in 1..Len(env.servers)}

--------------------------------------------------------------------------
(* HetznerClient.rebuild_server, main.py:296-341, run by thread p *)

Goto(p, where) == pc' = [pc EXCEPT ![p] = where]

\* Where a thread goes when rebuild_server has returned or raised: the callers
\* in _perform_rebuild leave through its finally clause, api_rebuild returns.
AfterFailure(p) == IF p \in LockProcs THEN "finally" ELSE "ret"

\* A failure that is recorded and not returned: the workflow goes on.
FailAndGoOn(p, error) ==
  /\ loc' = [loc EXCEPT ![p].result = error, ![p].success = "false"]
  /\ Goto(p, IF error = "delete_failed" THEN "create" ELSE AfterFailure(p))

Fail(p, error) ==
  /\ loc' = [loc EXCEPT ![p].result = error, ![p].success = "false"]
  /\ Goto(p, AfterFailure(p))

\* main.py:297-299: get_server; None gives the 'server not found' result.
RS_GetServer(p) ==
  /\ pc[p] = "lookup"
  /\ \/ Goto(p, "image") /\ UNCHANGED loc
     \/ Fail(p, "not_found")
  /\ UNCHANGED <<loopVars, aggVars, storeVars, env, ALERT_STATE, REBUILD_LOCKS, monVars>>

\* What the image of a replacement is resolved from: the entries of
\* rebuild.snapshot_id_map under the id and under the name of the server
\* (None: no entry), and the snapshots the provider lists, each with its id
\* and its time of creation (an empty list also when the request failed,
\* main.py:293-294).
ImageInputs ==
  [by_id : {None, 11}, by_name : {None, 12},
   snapshots : {<< >>,
                <<[id |-> 21, created |-> 1]>>,
                <<[id |-> 21, created |-> 1], [id |-> 22, created |-> 2]>>,
                <<[id |-> 22, created |-> 2], [id |-> 21, created |-> 1]>>}]

\* No override; the provider lists one snapshot or none.
DefaultImages ==
  {[by_id |-> None, by_name |-> None, snapshots |-> <<[id |-> 21, created |-> 1]>>],
   [by_id |-> None, by_name |-> None, snapshots |-> << >>]}

\* The snapshots left in the order the provider listed them.
as_listed(snapshots) == snapshots

\* main.py:290-291: snapshots.sort(key=created, reverse=True).
RECURSIVE sort_newest_first(_)
sort_newest_first(snapshots) ==
  IF snapshots = << >> THEN << >>
  ELSE LET m == CHOOSE i \in 1..Len(snapshots) :
                  \A j \in 1..Len(snapshots) :
                    \/ snapshots[j].created < snapshots[i].created
                    \/ snapshots[j].created = snapshots[i].created /\ i <= j
           rest == [k \in 1..(Len(snapshots) - 1) |->
                     IF k < m THEN snapshots[k] ELSE snapshots[k + 1]]
       IN  <<snapshots[m]>> \o sort_newest_first(rest)

\* main.py:301-309: mapped_id = map.get(str(server_id)) or map.get(name);
\* without one, the first of the sorted snapshots; None when there is none.
resolve_image(input) ==
  LET mapped_id == IF input.by_id # None THEN input.by_id ELSE input.by_name
      snapshots == sort_newest_first(input.snapshots)
  IN  IF mapped_id # None THEN mapped_id
      ELSE IF snapshots = << >> THEN None
      ELSE snapshots[1].id

\* main.py:301-309: the image is resolved; without one the call returns the
\* 'no snapshot' result.
RS_Image(p) ==
  /\ pc[p] = "image"
  /\ \E input \in env.images :
       IF resolve_image(input) = None
         THEN Fail(p, "no_snapshot")
         ELSE /\ loc' = [loc EXCEPT ![p].image = resolve_image(input)]
              /\ Goto(p, "delete")
  /\ UNCHANGED <<loopVars, aggVars, storeVars, env, ALERT_STATE, REBUILD_LOCKS, monVars>>

\* main.py:311-312: delete_server.
RS_Delete(p) ==
  /\ pc[p] = "delete"
  /\ \/ Goto(p, "create") /\ loc' = [loc EXCEPT ![p].tries = 0, ![p].deleted = TRUE]
     \/ Fail(p, "delete_failed")
  /\ UNCHANGED <<loopVars, aggVars, storeVars, env, ALERT_STATE, REBUILD_LOCKS, monVars>>

\* main.py:324-341: one pass of the creation loop. A created server ends the
\* loop; building the result reads new_server["public_net"]["ipv4"]["ip"],
\* which raises for a server without an IPv4 address. A failed request or a
\* response without a server counts one attempt; after CreateAttempts of them
\* the result is the creation failure.
RS_Create(p) ==
  /\ pc[p] = "create"
  /\ loc[p].tries < CreateAttempts
  /\ \/ /\ loc' = [loc EXCEPT ![p].result = "ok", ![p].tries = 0,
                              ![p].creates = @ + 1]
        /\ Goto(p, "dns")
     \/ /\ loc' = [loc EXCEPT ![p].result = "exception", ![p].tries = 0,
                              ![p].creates = @ + 1, ![p].success = "raised"]
        /\ Goto(p, AfterFailure(p))
     \/ IF loc[p].tries + 1 < CreateAttempts
          THEN /\ loc' = [loc EXCEPT ![p].tries = @ + 1, ![p].creates = @ + 1]
               /\ UNCHANGED pc
          ELSE /\ loc' = [loc EXCEPT ![p].tries = 0, ![p].creates = @ + 1,
                                     ![p].result = "create_failed",
                                     ![p].success = "false"]
               /\ Goto(p, AfterFailure(p))
  /\ UNCHANGED <<loopVars, aggVars, storeVars, env, ALERT_STATE, REBUILD_LOCKS, monVars>>

--------------------------------------------------------------------------
(* _perform_rebuild, main.py:532-575, run by thread p of LockProcs *)

\* The statements between the successful acquire and the finally clause.
Body == {"start", "lookup", "image", "delete", "create", "dns", "complete", "finally"}

\* main.py:535-537: setdefault creates the lock of the id on first use;
\* acquire(blocking=False) takes a free lock, and on a held one the call
\* returns the 'rebuild in progress' result before entering the try block.
\* A lock made anew for every call, which no other call ever holds.
LockPerCall(sid) == TRUE

\* lock.acquire(blocking=False) on the one lock REBUILD_LOCKS keeps for the id.
TryAcquire(sid) == LockOf(sid) = Free

\* The acquire written inside the try block: a rejected call leaves through
\* the finally clause.
PR_AcquireInsideTry(p) ==
  /\ pc[p] = "acquire"
  /\ IF TryAcquire(loc[p].sid)
       THEN /\ REBUILD_LOCKS' = SetFn(REBUILD_LOCKS, loc[p].sid, p)
            /\ Goto(p, "start")
            /\ UNCHANGED loc
       ELSE /\ loc' = [loc EXCEPT ![p].result = "in_progress", ![p].success = "false"]
            /\ Goto(p, "finally")
            /\ UNCHANGED REBUILD_LOCKS
  /\ UNCHANGED <<loopVars, aggVars, storeVars, env, ALERT_STATE, monVars>>

\* main.py:535-537: the lock of the id is made on first use and tried without
\* waiting, before the try block; a call that does not get it returns the
\* 'rebuild in progress' result at once.
PR_Acquire(p) ==
  /\ pc[p] = "acquire"
  /\ IF TryAcquire(loc[p].sid)
       THEN /\ REBUILD_LOCKS' = SetFn(REBUILD_LOCKS, loc[p].sid, p)
            /\ Goto(p, "start")
            /\ UNCHANGED loc
       ELSE /\ loc' = [loc EXCEPT ![p].result = "in_progress", ![p].success = "false"]
            /\ Goto(p, "ret")
            /\ UNCHANGED REBUILD_LOCKS
  /\ UNCHANGED <<loopVars, aggVars, storeVars, env, ALERT_STATE, monVars>>

\* main.py:465-479 and 541: what becomes of a notification: "off" when
\* Telegram is disabled or has no token or chat id (no request is made),
\* "failed" when the request fails (the error is printed and False returned),
\* "delivered" otherwise.
Notices == {"off", "failed", "delivered"}

DefaultNotices == {"delivered"}

\* A 'rebuild triggered' notification whose failed delivery ends the call.
StartOrAbort(p) ==
  /\ pc[p] = "start"
  /\ \E outcome \in env.notices :
       IF outcome = "failed"
         THEN /\ loc' = [loc EXCEPT ![p].start = outcome, ![p].result = "notify_failed",
                                    ![p].success = "false"]
              /\ Goto(p, "finally")
         ELSE /\ loc' = [loc EXCEPT ![p].start = outcome]
              /\ Goto(p, "lookup")
  /\ UNCHANGED <<loopVars, aggVars, storeVars, env, ALERT_STATE, REBUILD_LOCKS, monVars>>

\* main.py:539-547: the 'rebuild triggered' notification, when Telegram is
\* configured; the value _send_telegram_markdown returns is not looked at.
PR_Start(p) ==
  /\ pc[p] = "start"
  /\ \E outcome \in env.notices : loc' = [loc EXCEPT ![p].start = outcome]
  /\ Goto(p, "lookup")
  /\ UNCHANGED <<loopVars, aggVars, storeVars, env, ALERT_STATE, REBUILD_LOCKS, monVars>>

\* An entry of cloudflare.record_map as the configuration file gives it: no
\* entry under the key, a bare record name, or a mapping with the optional
\* keys record, name, zone_id and api_token (None: the key is missing).
NoEntry ==
  [kind |-> "none", record |-> None, name |-> None, zone_id |-> None, api_token |-> None]

StrEntry(record) ==
  [kind |-> "str", record |-> record, name |-> None, zone_id |-> None, api_token |-> None]

DictEntry(record, name, zone_id, api_token) ==
  [kind |-> "dict", record |-> record, name |-> name, zone_id |-> zone_id,
   api_token |-> api_token]

EntriesFor(record) ==
  {NoEntry, StrEntry(record), DictEntry(record, None, 7, 9),
   DictEntry(None, record, 7, 9), DictEntry(None, None, 7, 9),
   DictEntry(record, None, None, None)}

\* The record map of a server, by the two keys a configuration file may hold
\* (main.py:553 reads str(server_id); scripts/migrate-monitor.py:116 writes
\* the server's name), and the zone and token of the cloudflare section.
RecordInputs ==
  [by_id : EntriesFor(31), by_name : EntriesFor(32),
   zone_id : {None, 5}, api_token : {None, 6}]

DefaultRecords ==
  {[by_id |-> StrEntry(31), by_name |-> NoEntry, zone_id |-> 5, api_token |-> 6],
   [by_id |-> NoEntry, by_name |-> NoEntry, zone_id |-> 5, api_token |-> 6]}

\* The result of _resolve_cf_record when the entry is not usable.
Unresolved == [record |-> None, zone_id |-> None, api_token |-> None]

\* Python's `a or b` over values of which None is the false one.
Or(a, b) == IF a # None THEN a ELSE b

\* main.py:482-491.
resolve_cf_record(record_cfg, fallback_zone, fallback_token) ==
  IF record_cfg.kind = "str"
    THEN [record |-> record_cfg.record, zone_id |-> fallback_zone,
          api_token |-> fallback_token]
  ELSE IF record_cfg.kind = "dict"
    THEN LET record == Or(record_cfg.record, record_cfg.name)
             zone_id == Or(record_cfg.zone_id, fallback_zone)
             api_token == Or(record_cfg.api_token, fallback_token)
         IN  IF record # None /\ zone_id # None /\ api_token # None
               THEN [record |-> record, zone_id |-> zone_id, api_token |-> api_token]
               ELSE Unresolved
  ELSE Unresolved

\* main.py:552-554: _perform_rebuild resolves the entry under str(server_id).
\* main.py:865-867: api_rebuild takes the entry under str(server_id) as the
\* record name as it is, and updates whenever there is one; a mapping handed
\* over as the name is no record name (None).
dns_record(p, input) ==
  IF p \in LockProcs
    THEN resolve_cf_record(input.by_id, input.zone_id, input.api_token)
    ELSE [record |-> IF input.by_id.kind = "str" THEN input.by_id.record ELSE None,
          zone_id |-> input.zone_id, api_token |-> input.api_token]

\* main.py:557 `if resolved:` and main.py:868 `if record_name:`.
has_record(p, input) ==
  IF p \in LockProcs
    THEN dns_record(p, input) # Unresolved
    ELSE input.by_id.kind # "none"

\* A DNS step whose failure is returned as the result of the call.
AfterDnsFailing(p, outcome, record) ==
  IF outcome \in {"no_record", "failed"}
    THEN /\ loc' = [loc EXCEPT ![p].dns = outcome, ![p].tries = 0, ![p].record = record,
                               ![p].success = "false"]
         /\ Goto(p, AfterFailure(p))
    ELSE /\ loc' = [loc EXCEPT ![p].dns = outcome, ![p].tries = 0, ![p].record = record,
                               ![p].success = IF p \in LockProcs THEN @ ELSE "true"]
         /\ Goto(p, IF p \in LockProcs THEN "complete" ELSE "ret")

\* The DNS step has ended with `outcome`: _perform_rebuild goes on to the
\* completion notification (main.py:564); api_rebuild returns the rebuild
\* result and the DNS outcome (main.py:875).
AfterDns(p, outcome, record) ==
  /\ loc' = [loc EXCEPT ![p].dns = outcome, ![p].tries = 0, ![p].record = record,
                        ![p].success = IF p \in LockProcs THEN @ ELSE "true"]
  /\ Goto(p, IF p \in LockProcs THEN "complete" ELSE "ret")

\* main.py:553-563 (866-874 in api_rebuild) and 343-377: without a usable
\* record mapping the update is skipped and the dns field is None; else one
\* pass of the loop of update_cloudflare_a_record, which catches its own
\* errors: no record of that name ends it at once, a failed request counts
\* one attempt, and after DnsAttempts of them the outcome is the failure.
PR_Dns(p) ==
  /\ pc[p] = "dns"
  /\ \E input \in env.records :
       LET record == dns_record(p, input).record
       IN  IF ~has_record(p, input)
             THEN loc[p].tries = 0 /\ AfterDns(p, "no_mapping", None)
             ELSE \/ AfterDns(p, "no_record", record)
                  \/ AfterDns(p, "ok", record)
                  \/ IF loc[p].tries + 1 < DnsAttempts
                       THEN loc' = [loc EXCEPT ![p].tries = @ + 1] /\ UNCHANGED pc
                       ELSE AfterDns(p, "failed", record)
  /\ UNCHANGED <<loopVars, aggVars, storeVars, env, ALERT_STATE, REBUILD_LOCKS, monVars>>

\* main.py:565-567: what the completion text says about DNS: nothing when
\* the update was skipped, else that it was updated or that it failed.
dns_text(dns) ==
  IF dns = "no_mapping" THEN "" ELSE IF dns = "ok" THEN "updated" ELSE "failed"

\* A completion that marks the server as rebuilt in the alert state.
PR_CompleteMarking(p) ==
  /\ pc[p] = "complete"
  /\ \E outcome \in env.notices :
       loc' = [loc EXCEPT ![p].done = (outcome # "off"), ![p].success = "true",
                          ![p].end = outcome,
                          ![p].text = IF outcome = "off" THEN "none"
                                      ELSE dns_text(loc[p].dns)]
  /\ ALERT_STATE' = SetFn(ALERT_STATE, loc[p].sid,
                          [AlertOf(loc[p].sid) EXCEPT !.auto_rebuild = TRUE])
  /\ Goto(p, "finally")
  /\ UNCHANGED <<loopVars, aggVars, storeVars, env, REBUILD_LOCKS, monVars>>

\* main.py:564-573: the completion notification, with the DNS outcome in its
\* text, then return {"success": True, "dns": dns_result}.
PR_Complete(p) ==
  /\ pc[p] = "complete"
  /\ \E outcome \in env.notices :
       loc' = [loc EXCEPT ![p].done = (outcome # "off"), ![p].success = "true",
                          ![p].end = outcome,
                          ![p].text = IF outcome = "off" THEN "none"
                                      ELSE dns_text(loc[p].dns)]
  /\ Goto(p, "finally")
  /\ UNCHANGED <<loopVars, aggVars, storeVars, env, ALERT_STATE, REBUILD_LOCKS, monVars>>

\* A release written as the last statement of the try block, which the
\* early returns and an exception pass by.
ReleaseOnSuccessOnly(p) ==
  REBUILD_LOCKS' = SetFn(REBUILD_LOCKS, loc[p].sid,
                         IF loc[p].result = "ok" THEN Free ELSE p)

\* main.py:574-575: lock.release() on every way out of the try block.
Release(p) ==
  REBUILD_LOCKS' = SetFn(REBUILD_LOCKS, loc[p].sid, Free)

PR_Finally(p) ==
  /\ pc[p] = "finally"
  /\ Release(p)
  /\ Goto(p, "ret")
  /\ UNCHANGED <<loopVars, aggVars, storeVars, env, ALERT_STATE, loc, monVars>>

--------------------------------------------------------------------------
(* The manual entry points *)

\* main.py:717-726: /rebuild <name> finds the listed server of that name and
\* calls _perform_rebuild with its id.
BotRebuild(sid) ==
  /\ pc["bot"] = "idle"
  /\ loc' = [loc EXCEPT !["bot"] = [NoLoc EXCEPT !.sid = sid]]
  /\ Goto("bot", "acquire")
  /\ UNCHANGED <<loopVars, aggVars, storeVars, env, ALERT_STATE, REBUILD_LOCKS, monVars>>

\* main.py:727-729 and 769: the reply; an exception of the workflow ends in
\* the loop's except clause (main.py:770). Either way the loop goes on.
BotReply ==
  /\ pc["bot"] = "ret"
  /\ loc' = [loc EXCEPT !["bot"] = NoLoc]
  /\ Goto("bot", "idle")
  /\ UNCHANGED <<loopVars, aggVars, storeVars, env, ALERT_STATE, REBUILD_LOCKS, monVars>>

\* main.py:855-861: POST /api/rebuild calls client.rebuild_server itself,
\* not _perform_rebuild.
ApiRebuild(sid) ==
  /\ pc["api"] = "idle"
  /\ loc' = [loc EXCEPT !["api"] = [NoLoc EXCEPT !.sid = sid]]
  /\ Goto("api", "lookup")
  /\ UNCHANGED <<loopVars, aggVars, storeVars, env, ALERT_STATE, REBUILD_LOCKS, monVars>>

\* main.py:862-875: the response.
ApiReturn ==
  /\ pc["api"] = "ret"
  /\ loc' = [loc EXCEPT !["api"] = NoLoc]
  /\ Goto("api", "idle")
  /\ UNCHANGED <<loopVars, aggVars, storeVars, env, ALERT_STATE, REBUILD_LOCKS, monVars>>

--------------------------------------------------------------------------
(* _monitor_traffic_loop, main.py:605-681, thread "mon" *)

\* main.py:644: a reading below the remembered one.
IsRollback(st, out) ==
  st.last_outgoing # None /\ out < st.last_outgoing

\* The reading remembered without the rollback reset.
AfterReadNoReset(st, out) == [st EXCEPT !.last_outgoing = out]

\* main.py:643-647: the rollback reset, then the reading is remembered.
AfterRead(st, out) ==
  [last_level |-> IF IsRollback(st, out) THEN 0 ELSE st.last_level,
   last_outgoing |-> out,
   auto_rebuild |-> IF IsRollback(st, out) THEN FALSE ELSE st.auto_rebuild]

\* main.py:639 and 649: percent = outgoing / limit_bytes * 100 >= level.
Reached(levels, out) == {level \in levels : out * 100 >= level * LimitBytes}

\* The second `continue` left out: any reached level notifies.
PastContinuesNoMemory(st, levels, out) == Reached(levels, out) # {}

\* The second `continue` taken on equality alone.
PastContinuesAnyChange(st, levels, out) ==
  /\ Reached(levels, out) # {}
  /\ Max(Reached(levels, out)) # st.last_level

\* The second `continue` not taken on equality.
PastContinuesOnEquality(st, levels, out) ==
  /\ Reached(levels, out) # {}
  /\ Max(Reached(levels, out)) >= st.last_level

\* main.py:650-654: the two `continue`s; past them the step notifies.
PastContinues(st, levels, out) ==
  /\ Reached(levels, out) # {}
  /\ Max(Reached(levels, out)) > st.last_level

\* last_level raised when the message was not delivered.
AfterNotifyOnFailure(st, new_level, delivered) ==
  IF delivered THEN st ELSE [st EXCEPT !.last_level = new_level]

\* last_level raised whether or not the message was delivered.
AfterNotifyAlways(st, new_level, delivered) == [st EXCEPT !.last_level = new_level]

\* main.py:663-665: last_level is raised when the message was delivered.
AfterNotify(st, new_level, delivered) ==
  IF delivered THEN [st EXCEPT !.last_level = new_level] ELSE st

\* The comparison with the limit left out.
WantsRebuildAnyReading(st, action, out) ==
  action = "rebuild" /\ ~st.auto_rebuild

\* The check of auto_rebuild left out.
WantsRebuildEveryPoll(st, action, out) ==
  action = "rebuild" /\ out >= LimitBytes

\* main.py:667-668.
WantsRebuild(st, action, out) ==
  action = "rebuild" /\ out >= LimitBytes /\ ~st.auto_rebuild

\* The flag set whatever the call returned.
AfterRebuildAlways(st, success) == [st EXCEPT !.auto_rebuild = TRUE]

\* main.py:677-678: if result.get("success").
AfterRebuild(st, success) ==
  IF success = "true" THEN [st EXCEPT !.auto_rebuild = TRUE] ELSE st

\* The for loop of main.py:633 moves to the next listed server; after the
\* last one the pass ends in the sleep of main.py:681.
Advance ==
  IF idx < Len(env.servers)
    THEN idx' = idx + 1 /\ UNCHANGED <<pc, cfg>>
    ELSE idx' = 0 /\ cfg' = NoCfg /\ Goto("mon", "idle")

EndPass == idx' = 0 /\ cfg' = NoCfg /\ Goto("mon", "idle")

\* The levels delivered to a server over the readings that rose one after the
\* other under the default levels, this step included.
Rising(st, out) == st.last_outgoing = None \/ out > st.last_outgoing

NotifiedAfter(sid, st, out, sent) ==
  LET this == IF sent = 0 THEN << >> ELSE <<sent>>
  IN  IF cfg.levels # DefaultLevels THEN << >>
      ELSE IF Rising(st, out) THEN notified[sid] \o this
      ELSE this

\* main.py:608-631: the configuration is read anew for every pass. A failure
\* to load the file or to list the servers ends the pass in the except
\* clause; without a usable limit_gb the pass is skipped (619-627), which
\* `poll` keeps the configuration of.
MonLoad ==
  /\ pc["mon"] = "idle"
  /\ \/ poll' = Carried /\ UNCHANGED <<cfg, idx, pc>>
     \/ \E config \in env.configs :
          IF config.limit = None
            THEN poll' = [Carried EXCEPT !.cfg = config] /\ UNCHANGED <<cfg, idx, pc>>
            ELSE /\ Len(env.servers) > 0
                 /\ poll' = Carried
                 /\ cfg' = config
                 /\ idx' = 1
                 /\ Goto("mon", "pass")
  /\ UNCHANGED <<loopVars, aggVars, storeVars, env, ALERT_STATE, REBUILD_LOCKS, loc, notified, reset_from>>

\* A missing reading taken as a reading of zero bytes.
NoReadingAsZero(sid, st0) ==
  /\ poll' = [Carried EXCEPT !.sid = sid, !.cfg = cfg,
                            !.prev = st0.last_outgoing,
                            !.level = st0.last_level]
  /\ ALERT_STATE' = SetFn(ALERT_STATE, sid, AfterRead(st0, 0))
  /\ Advance
  /\ UNCHANGED <<loc, notified, reset_from>>

\* main.py:635-638: get_server failed or the detail carries no
\* outgoing_traffic; the loop continues with the next server.
NoReading(sid, st0) ==
  /\ poll' = [Carried EXCEPT !.sid = sid, !.cfg = cfg,
                            !.prev = st0.last_outgoing,
                            !.level = st0.last_level]
  /\ Advance
  /\ UNCHANGED <<ALERT_STATE, loc, notified, reset_from>>

\* main.py:634-678 for the server at idx, up to the call of _perform_rebuild.
MonPoll ==
  /\ pc["mon"] = "pass"
  /\ LET sid == env.servers[idx]
         st0 == AlertOf(sid)
     IN  \/ NoReading(sid, st0)
         \/ \E out \in env.outs, ok \in BOOLEAN :
              LET st1 == AfterRead(st0, out)
                  past == PastContinues(st1, cfg.levels, out)
                  new_level == Max(Reached(cfg.levels, out))
                  tried == past /\ cfg.enabled
                  delivered == tried /\ ok
                  st2 == IF past THEN AfterNotify(st1, new_level, delivered) ELSE st1
                  call == past /\ WantsRebuild(st2, cfg.action, out)
                  sent == IF delivered THEN new_level ELSE 0
              IN  /\ ALERT_STATE' = SetFn(ALERT_STATE, sid, st2)
                  /\ poll' = [sid |-> sid, cfg |-> cfg, out |-> out,
                              prev |-> st0.last_outgoing, level |-> st0.last_level,
                              tried |-> IF tried THEN new_level ELSE 0,
                              sent |-> sent, called |-> call,
                              owed |-> IF past /\ ~delivered THEN new_level ELSE 0,
                              owed_sid |-> sid]
                  /\ notified' = [notified EXCEPT ![sid] = NotifiedAfter(sid, st0, out, sent)]
                  /\ reset_from' = IF IsRollback(st0, out)
                                     THEN [reset_from EXCEPT ![sid] = st0.last_level]
                                     ELSE reset_from
                  /\ IF call
                       THEN /\ loc' = [loc EXCEPT !["mon"] = [NoLoc EXCEPT !.sid = sid]]
                            /\ Goto("mon", "acquire")
                            /\ UNCHANGED <<idx, cfg>>
                       ELSE Advance /\ UNCHANGED loc
  /\ UNCHANGED <<loopVars, aggVars, storeVars, env, REBUILD_LOCKS>>

\* main.py:677-679: back from _perform_rebuild. An exception raised inside it
\* leaves the for loop for the except clause of main.py:679.
MonAfterRebuild ==
  /\ pc["mon"] = "ret"
  /\ ALERT_STATE' = SetFn(ALERT_STATE, loc["mon"].sid,
                          AfterRebuild(AlertOf(loc["mon"].sid), loc["mon"].success))
  /\ loc' = [loc EXCEPT !["mon"] = NoLoc]
  /\ IF loc["mon"].result = "exception"
       THEN EndPass
       ELSE IF idx < Len(env.servers)
              THEN idx' = idx + 1 /\ Goto("mon", "pass") /\ UNCHANGED cfg
              ELSE EndPass
  /\ UNCHANGED <<loopVars, aggVars, storeVars, env, REBUILD_LOCKS, poll, notified, reset_from>>

--------------------------------------------------------------------------
(* The report-state store of TelegramBot, telegram_bot.py:82-222, 478-500 *)

StoreProcs == {"report_thread", "handler"}

\* The last hour the clock reaches.
MaxHour == 0

\* now.strftime("%Y-%m-%d %H:00") of telegram_bot.py:115: the minutes are
\* dropped.
hour_key(time) == time.hour

\* now.strftime("%Y-%m-%d %H:%M") of telegram_bot.py:200; the report thread
\* acts on minute 0 and on minute 55.
minute_stamp(time) == time.hour * 60 + (IF time.on_hour THEN 0 ELSE 55)

\* The dict {}: the getters of telegram_bot.py:117, 165 and 202 read an
\* absent "last_time" as None and an absent "hourly" as {}. The "servers"
\* entry, which only the text of the next report is computed from, is left
\* out of the state.
EmptyState == [last_time |-> None, hourly |-> << >>]

\* The file does not exist; or it does not hold a JSON document (it was
\* opened for writing and nothing complete was written since); or it holds
\* the document of a state.
NoFile == [kind |-> "absent", state |-> EmptyState]

Unreadable == [kind |-> "unreadable", state |-> EmptyState]

Stored(state) == [kind |-> "json", state |-> state]

\* telegram_bot.py:82-91: a missing file and a failed json.load both give {}.
load_report_state(file) ==
  IF file.kind = "json" THEN file.state ELSE EmptyState

\* telegram_bot.py:101-112: one outbound reading per listed server.
Snapshots == [ServerIds -> env.outs]

\* op: the operation the thread is in; hour_key, stamp: what it formatted
\* from the time it read; state: the state it loaded or is about to save;
\* found: whether its call of _record_hourly_snapshot found the key stored.
NoTLoc == [op |-> "none", hour_key |-> None, stamp |-> None, state |-> EmptyState,
           found |-> FALSE]

TGoto(t, where) == tpc' = [tpc EXCEPT ![t] = where]

\* An exception leaves the operation: cmd_report catches it
\* (telegram_bot.py:481); the loop of the report thread has no handler
\* (telegram_bot.py:207-219), so that thread ends.
Raise(t) ==
  /\ tloc' = [tloc EXCEPT ![t] = NoTLoc]
  /\ TGoto(t, IF t = "handler" THEN "idle" ELSE "dead")

\* _send_scheduled_report goes on after its call of _record_hourly_snapshot
\* (telegram_bot.py:163-164); the report thread's hourly call is complete.
AfterRecord(op) == IF op = "report" THEN "report_load" ELSE "idle"

Leave(t, where) ==
  /\ tloc' = [tloc EXCEPT ![t] = IF where = "idle" THEN NoTLoc
                                  ELSE [@ EXCEPT !.state = EmptyState]]
  /\ TGoto(t, where)

\* telegram_bot.py:118-119: the return of a call that found its key.
Found(t, where) ==
  /\ tloc' = [tloc EXCEPT ![t] = IF where = "idle" THEN NoTLoc
                                  ELSE [@ EXCEPT !.found = TRUE]]
  /\ TGoto(t, where)

\* The snapshot first persisted under each hour key, once `file` is written.
WrittenAfter(file) ==
  IF file.kind # "json" THEN written
  ELSE [k \in DOMAIN written \cup DOMAIN file.state.hourly |->
          IF k \in DOMAIN written THEN written[k] ELSE file.state.hourly[k]]

\* The membership test answered 'absent' for every key.
KeyNeverPresent(hourly, key) == FALSE

\* telegram_bot.py:118: `hour_key in hourly`.
KeyPresent(hourly, key) == key \in DOMAIN hourly

\* telegram_bot.py:115-119: the state is loaded; a stored hour key ends the
\* call.
REC_Load(t) ==
  /\ tpc[t] = "record"
  /\ LET state == load_report_state(report_file)
     IN  IF KeyPresent(state.hourly, tloc[t].hour_key)
           THEN Found(t, AfterRecord(tloc[t].op))
           ELSE /\ tloc' = [tloc EXCEPT ![t].state = state]
                /\ TGoto(t, "record_collect")
  /\ UNCHANGED <<report_file, now, written, env, mainVars, aggVars, loopVars>>

\* telegram_bot.py:120-121: the snapshot is collected from the provider (a
\* failed request raises) and put under the hour key.
REC_Collect(t) ==
  /\ tpc[t] = "record_collect"
  /\ \/ \E snapshot \in Snapshots :
          /\ tloc' = [tloc EXCEPT ![t].state.hourly =
                        SetFn(@, tloc[t].hour_key, snapshot)]
          /\ TGoto(t, "record_open")
     \/ Raise(t)
  /\ UNCHANGED <<report_file, now, written, env, mainVars, aggVars, loopVars>>

\* telegram_bot.py:96: open(path, "w") truncates the file.
SAVE_Open(t) ==
  /\ tpc[t] \in {"record_open", "save_open"}
  /\ report_file' = Unreadable
  /\ TGoto(t, IF tpc[t] = "record_open" THEN "record_dump" ELSE "save_dump")
  /\ UNCHANGED <<now, tloc, written, env, mainVars, aggVars, loopVars>>

\* telegram_bot.py:97: json.dump writes the document from the position of
\* this thread's handle. Over a file still empty the file then holds the
\* document; over a document the other thread wrote since the open, it holds
\* this document or, when the other one was longer, this document followed
\* by the other one's tail, which no reader can parse.
SAVE_Dump(t) ==
  /\ tpc[t] \in {"record_dump", "save_dump"}
  /\ report_file' \in IF report_file.kind = "json"
                        THEN {Stored(tloc[t].state), Unreadable}
                        ELSE {Stored(tloc[t].state)}
  /\ written' = WrittenAfter(report_file')
  /\ Leave(t, IF tpc[t] = "record_dump" THEN AfterRecord(tloc[t].op) ELSE "idle")
  /\ UNCHANGED <<now, env, mainVars, aggVars, loopVars>>

\* telegram_bot.py:164-166: the state is loaded again.
REP_Load(t) ==
  /\ tpc[t] = "report_load"
  /\ tloc' = [tloc EXCEPT ![t].state = load_report_state(report_file)]
  /\ TGoto(t, "report_collect")
  /\ UNCHANGED <<report_file, now, written, env, mainVars, aggVars, loopVars>>

\* telegram_bot.py:168-203: the current snapshot is collected, the report is
\* formatted and sent (each of which may raise), and the state to save is
\* built from the time of the report and the loaded series.
REP_Collect(t) ==
  /\ tpc[t] = "report_collect"
  /\ \/ /\ tloc' = [tloc EXCEPT ![t].state =
                        [last_time |-> tloc[t].stamp,
                         hourly |-> tloc[t].state.hourly]]
        /\ TGoto(t, "save_open")
     \/ Raise(t)
  /\ UNCHANGED <<report_file, now, written, env, mainVars, aggVars, loopVars>>

Call(t, op, where) ==
  /\ tpc[t] = "idle"
  /\ tloc' = [tloc EXCEPT ![t] = [op |-> op, hour_key |-> hour_key(now),
                                  stamp |-> minute_stamp(now),
                                  state |-> EmptyState, found |-> FALSE]]
  /\ TGoto(t, where)
  /\ UNCHANGED <<report_file, now, written, env, mainVars, aggVars, loopVars>>

\* telegram_bot.py:210-212: on minute 0 the report thread records the hour.
RT_Hourly == now.on_hour /\ Call("report_thread", "hourly", "record")

\* telegram_bot.py:213-218: at 11:55 and 23:55 it sends the scheduled report.
RT_Scheduled == ~now.on_hour /\ Call("report_thread", "report", "record")

\* telegram_bot.py:478-480: /report sends the report at any time.
cmd_report == Call("handler", "report", "record")

\* telegram_bot.py:495-497: /reportreset saves {}.
cmd_reportreset == Call("handler", "reset", "save_open")

\* The clock moves from minute 0 to minute 55 and on to the next hour.
Tick ==
  /\ IF now.on_hour
       THEN now' = [now EXCEPT !.on_hour = FALSE]
       ELSE now.hour < MaxHour /\ now' = [hour |-> now.hour + 1, on_hour |-> TRUE]
  /\ UNCHANGED <<report_file, tpc, tloc, written, env, mainVars, aggVars, loopVars>>

--------------------------------------------------------------------------
(* Traffic aggregation: main.py:48-241, telegram_bot.py:124-185 *)

\* Readings of the series and values in TB are both counted in quarters of
\* 0.001 TB, the step of Decimal("0.001") in main.py:49-55.
UnitsPerMilliTB == 4

Abs(x) == IF x < 0 THEN -x ELSE x

\* main.py:54-55: quantize(Decimal("0.001"), rounding=ROUND_HALF_UP) gives the
\* nearest whole number of 0.001 TB; a tie goes away from zero.
quantize_tb(value) ==
  LET q == (2 * Abs(value) + UnitsPerMilliTB) \div (2 * UnitsPerMilliTB)
  IN  IF value < 0 THEN -(q * UnitsPerMilliTB) ELSE q * UnitsPerMilliTB

\* main.py:48-51: the bytes as TB, quantized in the same way.
bytes_to_tb(value_bytes) == quantize_tb(value_bytes)

\* A delta that was not produced (None in the code).
NoDelta == [has |-> FALSE, tb |-> 0]

\* A lower reading answered with a delta of zero.
delta_clamped(prev_v, curr_v) ==
  IF prev_v # None /\ curr_v # None
    THEN [has |-> TRUE,
          tb |-> IF curr_v >= prev_v THEN bytes_to_tb(curr_v - prev_v) ELSE 0]
    ELSE NoDelta

\* main.py:171-176, telegram_bot.py:146-149 and 182-185: the delta of one
\* direction of one entry.
delta_of(prev_v, curr_v) ==
  IF prev_v # None /\ curr_v # None /\ curr_v >= prev_v
    THEN [has |-> TRUE, tb |-> bytes_to_tb(curr_v - prev_v)]
    ELSE NoDelta

\* snapshot.get(sid, {}).get("outbound_bytes") and its inbound twin.
ReadingOf(snapshot, sid, dir) ==
  IF sid \notin DOMAIN snapshot THEN None
  ELSE IF dir = "out" THEN snapshot[sid].out ELSE snapshot[sid].inb

RECURSIVE SumOf(_)
SumOf(f) ==
  IF DOMAIN f = {} THEN 0
  ELSE LET x == CHOOSE x \in DOMAIN f : TRUE
       IN  f[x] + SumOf([y \in DOMAIN f \ {x} |-> f[y]])

\* main.py:162-186: the deltas of the entries of curr, each against the entry
\* of prev under the same key, added up under the name of the entry.
delta_by_name(prev, curr) ==
  LET names == {curr[sid].name : sid \in DOMAIN curr}
      under(name) == {sid \in DOMAIN curr : curr[sid].name = name}
      d(sid, dir) == delta_of(ReadingOf(prev, sid, dir), ReadingOf(curr, sid, dir))
  IN  [name \in names |->
        [out |-> SumOf([sid \in under(name) |-> d(sid, "out").tb]),
         inb |-> SumOf([sid \in under(name) |-> d(sid, "inb").tb]),
         has_out |-> \E sid \in under(name) : d(sid, "out").has,
         has_in |-> \E sid \in under(name) : d(sid, "inb").has]]

\* telegram_bot.py:136-150: per key of curr, the outbound delta of every pair.
hourly_report_deltas(hourly) ==
  [i \in 1..(Len(hourly) - 1) |->
    [sid \in DOMAIN hourly[i + 1] |->
      delta_of(ReadingOf(hourly[i], sid, "out"), ReadingOf(hourly[i + 1], sid, "out"))]]

\* telegram_bot.py:175-185: the interval of the scheduled report, from the
\* snapshot saved by the last report to the current one.
report_interval(last_snapshot, current_snapshot) ==
  [sid \in DOMAIN current_snapshot |->
    delta_of(ReadingOf(last_snapshot, sid, "out"),
             ReadingOf(current_snapshot, sid, "out"))]

\* str(sid): the key under which a snapshot lists a server.
str(sid) == IF sid = 1 THEN "1" ELSE "2"

\* main.py:141-143: deltas.get(sid, {}) looks the id up among the names that
\* _delta_by_name keys its answer by; has_out of a missing entry is falsy.
cycle_total_out(deltas, sid) ==
  IF str(sid) \in DOMAIN deltas /\ deltas[str(sid)].has_out
    THEN deltas[str(sid)].out
    ELSE 0

\* A comparison of the two readings that does not ask whether they are there.
cycle_rebuild_unchecked(prev, curr, sid) ==
  /\ sid \in DOMAIN prev /\ sid \in DOMAIN curr
  /\ curr[sid].out < prev[sid].out

\* main.py:130-135: both entries present, both outbound readings present,
\* and the later one lower.
cycle_rebuild(prev, curr, sid) ==
  /\ sid \in DOMAIN prev /\ sid \in DOMAIN curr
  /\ prev[sid].out # None /\ curr[sid].out # None
  /\ curr[sid].out < prev[sid].out

\* main.py:114-155: the walk over the pairs of keys up to key i for one id.
RECURSIVE cycle_walk(_, _, _)
cycle_walk(hourly, sid, i) ==
  IF i < 2 THEN [out |-> 0, age |-> 0, points |-> << >>, rebuilds |-> << >>]
  ELSE LET before == cycle_walk(hourly, sid, i - 1)
           rebuild == cycle_rebuild(hourly[i - 1], hourly[i], sid)
           total_out == cycle_total_out(delta_by_name(hourly[i - 1], hourly[i]), sid)
           cycle_out == quantize_tb((IF rebuild THEN 0 ELSE before.out) + total_out)
           cycle_age == IF rebuild THEN 0 ELSE before.age
       IN  [out |-> cycle_out,
            age |-> cycle_age + 1,
            points |-> Append(before.points,
                              [time |-> i, out_tb_h |-> quantize_tb(total_out),
                               cycle_out_cum_tb |-> cycle_out,
                               cycle_age_h |-> cycle_age]),
            rebuilds |-> IF rebuild THEN Append(before.rebuilds, i)
                         ELSE before.rebuilds]

\* main.py:97-160: no answer under two keys; the ids of all snapshots, kept
\* when listed in include_ids (an empty include_ids keeps all); an id
\* without points is left out.
compute_cycle_data(hourly, include_ids) ==
  IF Len(hourly) < 2 THEN << >>
  ELSE LET all == UNION {DOMAIN hourly[i] : i \in 1..Len(hourly)}
           server_ids == IF include_ids # {} THEN all \cap include_ids ELSE all
       IN  [sid \in server_ids |->
             LET w == cycle_walk(hourly, sid, Len(hourly))
             IN  [points |-> w.points, rebuilds |-> w.rebuilds]]

\* dict.get(key, default).
Get(dict, key, default) == IF key \in DOMAIN dict THEN dict[key] ELSE default

\* main.py:58-61: the date part of an hour key. The keys of the series are
\* consecutive hours of which the first two fall on one day, the next two on
\* the following day, and so on.
date_from_hour_key(key) == (key + 1) \div 2

\* The pair bucketed by the date of its earlier key.
daily_date_of_earlier(i) == date_from_hour_key(i - 1)

\* main.py:972-973: date_key is the date of curr_key.
daily_date(i) == date_from_hour_key(i)

\* main.py:979-991 for one direction: the deltas of one pair added to the
\* totals of its date and to the per-name totals of its date.
daily_add(totals, per_server, date_key, deltas, dir) ==
  LET has(name) == IF dir = "out" THEN deltas[name].has_out ELSE deltas[name].has_in
      tb(name) == IF dir = "out" THEN deltas[name].out ELSE deltas[name].inb
      names == {name \in DOMAIN deltas : has(name)}
  IN  [totals |->
         IF names = {} THEN totals
         ELSE SetFn(totals, date_key,
                    Get(totals, date_key, 0) + SumOf([name \in names |-> tb(name)])),
       per_server |->
         [name \in DOMAIN per_server \cup names |->
            IF name \in names
              THEN SetFn(Get(per_server, name, << >>), date_key,
                         Get(Get(per_server, name, << >>), date_key, 0) + tb(name))
              ELSE per_server[name]]]

\* main.py:966-991: the loop over the pairs of keys up to key i.
RECURSIVE daily_walk(_, _)
daily_walk(hourly, i) ==
  IF i < 2
    THEN [daily_totals |-> << >>, daily_in_totals |-> << >>,
          per_server |-> << >>, per_server_in |-> << >>]
    ELSE LET before == daily_walk(hourly, i - 1)
             deltas == delta_by_name(hourly[i - 1], hourly[i])
             o == daily_add(before.daily_totals, before.per_server,
                            daily_date(i), deltas, "out")
             n == daily_add(before.daily_in_totals, before.per_server_in,
                            daily_date(i), deltas, "inb")
         IN  [daily_totals |-> o.totals, daily_in_totals |-> n.totals,
              per_server |-> o.per_server, per_server_in |-> n.per_server]

MaxOr0(S) == IF S = {} THEN 0 ELSE Max(S)

\* main.py:958-1022: the response of /api/daily. The days are the dates that
\* have an outbound total (the last 35 of them, more than a series of the
\* model holds); the servers are the names that have an outbound total.
daily_response(hourly) ==
  LET w == daily_walk(hourly, Len(hourly))
      day_keys == DOMAIN w.daily_totals
      days == [d \in day_keys |->
                [outbound_tb |-> quantize_tb(w.daily_totals[d]),
                 inbound_tb |-> quantize_tb(Get(w.daily_in_totals, d, 0))]]
  IN  [days |-> days,
       peak |-> quantize_tb(MaxOr0({days[d].outbound_tb : d \in day_keys})),
       total |-> quantize_tb(SumOf([d \in day_keys |-> days[d].outbound_tb])),
       in_peak |-> quantize_tb(MaxOr0({days[d].inbound_tb : d \in day_keys})),
       in_total |-> quantize_tb(SumOf([d \in day_keys |-> days[d].inbound_tb])),
       servers |->
         [name \in DOMAIN w.per_server |->
           [d \in day_keys |->
             [outbound_tb |-> quantize_tb(Get(w.per_server[name], d, 0)),
              inbound_tb |->
                quantize_tb(Get(Get(w.per_server_in, name, << >>), d, 0))]]]]

\* main.py:67-74: the sum of the readings that are present.
sum_optional(readings) ==
  IF \A x \in DOMAIN readings : readings[x] = None THEN None
  ELSE SumOf([x \in {y \in DOMAIN readings : readings[y] # None} |-> readings[x]])

\* main.py:64-83: the entries of a snapshot merged under their names.
merge_hourly_snapshot(snapshot) ==
  [name \in {snapshot[sid].name : sid \in DOMAIN snapshot} |->
    LET under == {sid \in DOMAIN snapshot : snapshot[sid].name = name}
    IN  [name |-> name,
         out |-> sum_optional([sid \in under |-> snapshot[sid].out]),
         inb |-> sum_optional([sid \in under |-> snapshot[sid].inb])]]

\* main.py:86-87.
merge_hourly_series(hourly) ==
  [i \in DOMAIN hourly |-> merge_hourly_snapshot(hourly[i])]

\* The hour that the i-th key of the series names: the store holds the even
\* hours, so that a tracking start can fall between two stored keys.
stored_key(i) == 2 * i

\* The stored keys later than the start.
keys_after(n, start_override) ==
  {k \in 1..n : stored_key(k) > start_override}

\* main.py:198-199: the keys with key >= start_override.
keys_from(n, start_override) ==
  {k \in 1..n : stored_key(k) >= start_override}

\* main.py:206-214: the loop over the pairs i..Len(hourly).
RECURSIVE tracking_walk(_, _)
tracking_walk(hourly, i) ==
  IF i > Len(hourly) THEN [out |-> 0, inb |-> 0]
  ELSE LET rest == tracking_walk(hourly, i + 1)
           deltas == delta_by_name(hourly[i - 1], hourly[i])
       IN  [out |-> rest.out +
                    SumOf([name \in {x \in DOMAIN deltas : deltas[x].has_out} |->
                             deltas[name].out]),
            inb |-> rest.inb +
                    SumOf([name \in {x \in DOMAIN deltas : deltas[x].has_in} |->
                             deltas[name].inb])]

\* main.py:189-220.
compute_tracking_totals(hourly, start_override) ==
  LET found == keys_from(Len(hourly), start_override)
      start_idx == IF start_override = None THEN 1
                   ELSE CHOOSE k \in found : \A other \in found : k <= other
      totals == tracking_walk(hourly, start_idx + 1)
  IN  IF Len(hourly) = 0
        THEN [start |-> None, outbound_tb |-> 0, inbound_tb |-> 0]
      ELSE IF start_override # None /\ found = {}
        THEN [start |-> start_override, outbound_tb |-> 0, inbound_tb |-> 0]
      ELSE [start |-> IF start_override = None THEN stored_key(1)
                      ELSE start_override,
            outbound_tb |-> quantize_tb(totals.out),
            inbound_tb |-> quantize_tb(totals.inb)]

\* Only the readings of the snapshot at hand are remembered.
remember_present_only(prev_out, snapshot) ==
  [sid \in {x \in DOMAIN snapshot : snapshot[x].out # None} |-> snapshot[sid].out]

\* main.py:230-240: prev_out after a snapshot: the reading of every entry that
\* has one; an entry without a reading, or an id the snapshot does not list,
\* leaves what was remembered.
remember_out(prev_out, snapshot) ==
  LET present == {sid \in DOMAIN snapshot : snapshot[sid].out # None}
  IN  [sid \in DOMAIN prev_out \cup present |->
        IF sid \in present THEN snapshot[sid].out ELSE prev_out[sid]]

\* main.py:227-240: the loop over the keys up to key i.
RECURSIVE detect_walk(_, _)
detect_walk(hourly, i) ==
  IF i = 0 THEN [last |-> << >>, prev_out |-> << >>]
  ELSE LET before == detect_walk(hourly, i - 1)
           snapshot == hourly[i]
           lower == {sid \in DOMAIN snapshot :
                       /\ snapshot[sid].out # None
                       /\ sid \in DOMAIN before.prev_out
                       /\ snapshot[sid].out < before.prev_out[sid]}
       IN  [last |-> [sid \in DOMAIN before.last \cup lower |->
                       IF sid \in lower THEN stored_key(i) ELSE before.last[sid]],
            prev_out |-> remember_out(before.prev_out, snapshot)]

\* main.py:223-241.
detect_last_rebuilds(hourly) == detect_walk(hourly, Len(hourly)).last

NoView == [name |-> "none", at |-> 0]

\* A request is answered from the series as it is stored; the answer stays
\* in `view` until the response is sent.
Answer(v) ==
  /\ view = NoView
  /\ view' = v
  /\ UNCHANGED <<series, env, mainVars, storeVars, loopVars>>

Respond ==
  /\ view # NoView
  /\ view' = NoView
  /\ UNCHANGED <<series, env, mainVars, storeVars, loopVars>>

\* main.py:943-945 (and 925-927, 976-978, 208-210): _delta_by_name on the
\* pair of consecutive keys that ends at key i.
DeltaByName(i) ==
  /\ i \in 2..Len(series)
  /\ Answer([name |-> "delta_by_name", at |-> i,
              value |-> delta_by_name(series[i - 1], series[i])])

\* telegram_bot.py:124-159.
FormatHourlyReport ==
  /\ Len(series) >= 2
  /\ Answer([name |-> "hourly_report", at |-> Len(series),
              value |-> hourly_report_deltas(series)])

\* main.py:1025-1035: /api/cycle for the servers the provider lists now.
api_cycle(include_ids) ==
  /\ Answer([name |-> "cycle", at |-> Len(series), include |-> include_ids,
              value |-> compute_cycle_data(series, include_ids)])

\* main.py:957-1022: /api/daily.
api_daily ==
  /\ Answer([name |-> "daily", at |-> Len(series),
             value |-> daily_response(series)])

\* main.py:834-837: the tracking totals of /api/servers, computed on the
\* merged series from the configured tracking start.
api_servers_tracking(tracking_start) ==
  /\ Answer([name |-> "tracking", at |-> Len(series), start |-> tracking_start,
             value |-> compute_tracking_totals(merge_hourly_series(series),
                                               tracking_start)])

\* main.py:836 and 207-210: the deltas that the tracking totals add up for
\* the last pair of keys, computed on the merged series.
TrackingDeltas ==
  /\ Len(series) >= 2
  /\ Answer([name |-> "merged", at |-> Len(series),
             value |-> delta_by_name(merge_hourly_series(series)[Len(series) - 1],
                                     merge_hourly_series(series)[Len(series)])])

\* main.py:838: the rebuilds of /api/servers, detected on the stored series.
api_servers_rebuilds ==
  /\ Answer([name |-> "rebuilds", at |-> Len(series),
             value |-> detect_last_rebuilds(series)])

\* main.py:629: the levels of a pass, parsed from the notify_levels setting.
ParseLevels(raw_levels) ==
  /\ Answer([name |-> "levels", at |-> 0, raw |-> raw_levels,
             value |-> parse_alert_levels(raw_levels)])

\* telegram_bot.py:161-196 with the last two snapshots as the saved and the
\* current one.
ScheduledReport(i) ==
  /\ i \in 2..Len(series)
  /\ Answer([name |-> "report_interval", at |-> i,
              value |-> report_interval(series[i - 1], series[i])])

--------------------------------------------------------------------------
(* The polling loops: _monitor_traffic_loop, _daily_report_loop and       *)
(* _telegram_bot_loop of main.py, and the loop of _start_report_thread of  *)
(* telegram_bot.py. Each loop is followed through one iteration after the  *)
(* other; a step that can fail either goes on or raises.                   *)

Loops == {"monitor", "daily", "bot", "report"}

\* traffic.check_interval of the configuration: null, 0 and the default 5.
CheckIntervals == {None, 0, 5}

LGoto(l, where) == lpc' = [lpc EXCEPT ![l] = where]

\* A step of loop l that goes on to `next` or raises into `handler`.
MayRaise(l, at, next, handler) ==
  /\ lpc[l] = at
  /\ \/ LGoto(l, next)
     \/ LGoto(l, handler)
  /\ UNCHANGED <<interval_seconds, env, mainVars, storeVars, aggVars, schedVars, botVars>>

\* The minutes of a day at which the loops are looked at, in their order:
\* the minutes of the reports and two minutes on the hour.
DayTimes == <<"08:00", "11:55", "12:00", "23:55">>

\* The last date the clock reaches.
MaxDate == 2

Dates == 1..MaxDate

\* now.strftime("%H:%M") of main.py:698 and telegram_bot.py:212.
strftime(time) == DayTimes[time.at]

\* now.minute of telegram_bot.py:210.
minute(time) == IF strftime(time) \in {"08:00", "12:00"} THEN 0 ELSE 55

\* telegram.daily_report_time of the configuration.
DailyTimes == {"08:00", "11:55"}

\* telegram_bot.py:212: the minutes of the bot's scheduled reports.
Targets == {"11:55", "23:55"}

Reports == {"daily"} \cup Targets

\* A report falls due on every wake-up of its minute, whatever was sent.
due_on_every_wake(time, target, marker) == strftime(time) = target

\* main.py:701, telegram_bot.py:213-214: a report is due in its minute, on
\* a date other than the one the marker holds.
due(time, target, marker) == strftime(time) = target /\ marker # time.date

\* One more report of the date handed to the notification channel.
Hand(report, date) == handed' = [handed EXCEPT ![<<report, date>>] = @ + 1]

\* main.py:608: _load_yaml raises on an unreadable or malformed file; the
\* except clause of main.py:679 leads to the sleep of main.py:681.
ML_Load == MayRaise("monitor", "load", "parse", "sleep")

\* main.py:609-617: interval_seconds = max(30, int(check_interval) * 60);
\* int() raises on a value that is not a number, before the assignment.
ML_Parse ==
  /\ lpc["monitor"] = "parse"
  /\ \E check_interval \in CheckIntervals :
       IF check_interval = None
         THEN LGoto("monitor", "sleep") /\ UNCHANGED interval_seconds
         ELSE /\ interval_seconds' = Max({30, check_interval * 60})
              /\ LGoto("monitor", "limit")
  /\ UNCHANGED <<env, mainVars, storeVars, aggVars, schedVars, botVars>>

\* main.py:619-627: without a usable limit_gb the iteration sleeps
\* interval_seconds and continues; else it goes on to the provider.
ML_Limit ==
  /\ lpc["monitor"] = "limit"
  /\ \/ LGoto("monitor", "sleep")
     \/ LGoto("monitor", "poll")
  /\ UNCHANGED <<interval_seconds, env, mainVars, storeVars, aggVars, schedVars, botVars>>

\* main.py:629-678: the client, get_servers and the per-server steps; an
\* exception of any of them is caught at main.py:679.
ML_Poll == MayRaise("monitor", "poll", "sleep", "sleep")

\* main.py:681 (and 620, 626): time.sleep(interval_seconds). The statement
\* stands outside the try block: reading the local while it is unbound
\* raises UnboundLocalError, which nothing catches, and the thread ends.
ML_Sleep ==
  /\ lpc["monitor"] = "sleep"
  /\ LGoto("monitor", IF interval_seconds = None THEN "dead" ELSE "load")
  /\ UNCHANGED <<interval_seconds, env, mainVars, storeVars, aggVars, schedVars, botVars>>

\* main.py:687: _load_yaml; the except clause of main.py:706 leads to the
\* sleep of main.py:708.
DL_Load == MayRaise("daily", "load", "check", "sleep")

\* main.py:688-696: Telegram disabled or incompletely configured: sleep and
\* continue; main.py:697-701: the clock is read, and the report is gone on
\* to in its minute unless the marker holds the date.
DL_Check ==
  /\ lpc["daily"] = "check"
  /\ \/ LGoto("daily", "sleep") /\ UNCHANGED lnow
     \/ \E daily_time \in DailyTimes :
          /\ lnow' = [lnow EXCEPT !["daily"] = wall]
          /\ LGoto("daily",
                   IF due(wall, daily_time, SCHEDULE_STATE.last_daily_report)
                     THEN "report" ELSE "sleep")
  /\ UNCHANGED <<interval_seconds, env, mainVars, storeVars, aggVars, botVars,
                 wall, SCHEDULE_STATE, last_sent, handed>>

\* main.py:702-705: the client and the report are built, the report is
\* passed to _send_telegram_markdown, which swallows its own errors, and the
\* marker takes current_date; an exception of the building is caught at
\* main.py:706 before anything is sent or marked.
DL_Report ==
  /\ lpc["daily"] = "report"
  /\ \/ UNCHANGED <<SCHEDULE_STATE, handed>>
     \/ /\ Hand("daily", lnow["daily"].date)
        /\ SCHEDULE_STATE' = [last_daily_report |-> lnow["daily"].date]
  /\ LGoto("daily", "sleep")
  /\ UNCHANGED <<interval_seconds, env, mainVars, storeVars, aggVars, botVars,
                 wall, lnow, last_sent>>

\* main.py:708 (and 690, 696): time.sleep(30).
DL_Sleep ==
  /\ lpc["daily"] = "sleep"
  /\ LGoto("daily", "load")
  /\ UNCHANGED <<interval_seconds, env, mainVars, storeVars, aggVars, schedVars, botVars>>

\* main.py:736: _load_yaml; the except clause of main.py:770 leads to the
\* sleep of main.py:772.
BL_Load == MayRaise("bot", "load", "check", "sleep")

\* The most updates Telegram receives for the bot.
MaxUpdates == 3

\* A value of the configuration or of an update that is an integer, and one
\* that is a string, spelled as its characters.
IntValue(n) == [kind |-> "int", int |-> n, text |-> << >>]

StrValue(chars) == [kind |-> "str", int |-> 0, text |-> chars]

Digit(d) == <<"0", "1", "2", "3", "4", "5", "6", "7", "8", "9">>[d + 1]

RECURSIVE digits(_)
digits(n) ==
  IF n < 10 THEN <<Digit(n)>> ELSE Append(digits(n \div 10), Digit(n % 10))

\* str() of main.py:742 and 762: a string is itself, an integer is its
\* decimal digits behind its sign.
chat_str(value) ==
  IF value.kind = "str" THEN value.text
  ELSE IF value.int < 0 THEN <<"-">> \o digits(-value.int)
  ELSE digits(value.int)

\* .strip() of main.py:742: the spaces at both ends are dropped.
RECURSIVE strip(_)
strip(chars) ==
  IF chars = << >> THEN chars
  ELSE IF Head(chars) = " " THEN strip(Tail(chars))
  ELSE IF chars[Len(chars)] = " " THEN strip(SubSeq(chars, 1, Len(chars) - 1))
  ELSE chars

\* telegram.chat_id of the configuration: the owner's chat as a number, as a
\* string with spaces around it, and a blank string.
ChatSettings == {IntValue(7), StrValue(<<" ", "7", " ">>), StrValue(<<" ">>)}

\* The chats updates come from: the owner's, a group of a like number, and
\* a chat whose number begins as the owner's.
Chats == {7, -7, 77}

\* An update: a message of a chat with its text, or an update of another
\* kind, which has no "message".
Update(message, chat, text) == [message |-> message, chat |-> chat, text |-> text]

Updates ==
  {Update(TRUE, chat, "/rebuild web") : chat \in Chats}
    \cup {Update(TRUE, 7, ""), Update(FALSE, 0, "")}

NoUpdate == [update_id |-> 0, message |-> FALSE, chat |-> 0, text |-> ""]

\* main.py:742, 755-769: the locals chat_id, data["result"] as far as the
\* for loop has not reached it, and update.
NoBatch == [chat_id |-> << >>, result |-> << >>, update |-> NoUpdate]

\* getUpdates of the Bot API: the updates from the offset on, oldest first.
getUpdates(offset) ==
  SelectSeq(inbox, LAMBDA update : update.update_id >= offset)

\* The offset stays on the update it was read from.
offset_on(update) == update.update_id

\* main.py:756-758: the offset that confirms the update.
offset_past(update) == update.update_id + 1

\* Every message that has a text is taken.
accepted_from_any_chat(update, chat_id) == update.message /\ update.text # ""

\* main.py:759-765: an update is gone on with when it has a message, the
\* chat of the message is the configured one, and the message has a text.
accepted(update, chat_id) ==
  /\ update.message
  /\ chat_str(IntValue(update.chat)) = chat_id
  /\ update.text # ""

\* main.py:737-745: Telegram disabled or incompletely configured (a blank
\* chat_id among it): sleep and continue; else chat_id is kept.
BL_Check ==
  /\ lpc["bot"] = "check"
  /\ \/ LGoto("bot", "sleep") /\ UNCHANGED batch
     \/ \E setting \in ChatSettings :
          LET chat_id == strip(chat_str(setting))
          IN  IF chat_id = << >>
                THEN LGoto("bot", "sleep") /\ UNCHANGED batch
                ELSE /\ batch' = [NoBatch EXCEPT !.chat_id = chat_id]
                     /\ LGoto("bot", "poll")
  /\ UNCHANGED <<interval_seconds, env, mainVars, storeVars, aggVars, schedVars,
                 BOT_STATE, inbox, executed>>

\* main.py:747-754: getUpdates from the stored offset on; a failed request
\* raises, an answer that is not ok sleeps and continues.
BL_Poll ==
  /\ lpc["bot"] = "poll"
  /\ \/ LGoto("bot", "sleep") /\ UNCHANGED batch
     \/ /\ batch' = [batch EXCEPT !.result = getUpdates(BOT_STATE.update_offset)]
        /\ LGoto("bot", "handle")
  /\ UNCHANGED <<interval_seconds, env, mainVars, storeVars, aggVars, schedVars,
                 BOT_STATE, inbox, executed>>

\* main.py:755-765: the next update of the answer: the offset is stored, and
\* an update that is not accepted is passed over; after the last one the
\* loop sleeps.
BL_Handle ==
  /\ lpc["bot"] = "handle"
  /\ IF batch.result = << >>
       THEN LGoto("bot", "sleep") /\ UNCHANGED <<BOT_STATE, batch>>
       ELSE LET update == Head(batch.result)
            IN  /\ BOT_STATE' = [update_offset |-> offset_past(update)]
                /\ batch' = [batch EXCEPT !.result = Tail(@), !.update = update]
                /\ LGoto("bot", IF accepted(update, batch.chat_id)
                                  THEN "command" ELSE "handle")
  /\ UNCHANGED <<interval_seconds, env, mainVars, storeVars, aggVars, schedVars,
                 inbox, executed>>

\* main.py:766-768: the client is made, the command is executed and its
\* reply is sent. The making of the client raises before the command runs,
\* the command raises while it runs (main.py:339 within /rebuild), or it
\* returns its reply; an exception is caught at main.py:770 and the rest of
\* the answer is dropped.
BL_Command ==
  /\ lpc["bot"] = "command"
  /\ LET update_id == batch.update.update_id
     IN  \/ LGoto("bot", "sleep") /\ UNCHANGED executed
         \/ /\ executed' = [executed EXCEPT ![update_id].runs = @ + 1]
            /\ LGoto("bot", "sleep")
         \/ /\ executed' = [executed EXCEPT ![update_id].runs = @ + 1,
                                             ![update_id].replies = @ + 1]
            /\ LGoto("bot", "handle")
  /\ UNCHANGED <<interval_seconds, env, mainVars, storeVars, aggVars, schedVars,
                 BOT_STATE, inbox, batch>>

\* Telegram receives an update for the bot and numbers it.
Arrive ==
  /\ Len(inbox) < MaxUpdates
  /\ \E update \in Updates :
       inbox' = Append(inbox, [update_id |-> Len(inbox) + 1,
                               message |-> update.message,
                               chat |-> update.chat, text |-> update.text])
  /\ UNCHANGED <<env, mainVars, storeVars, aggVars, schedVars, lpc,
                 interval_seconds, BOT_STATE, batch, executed>>

\* main.py:772 (and 739, 745, 753): time.sleep.
BL_Sleep ==
  /\ lpc["bot"] = "sleep"
  /\ LGoto("bot", "load")
  /\ UNCHANGED <<interval_seconds, env, mainVars, storeVars, aggVars, schedVars, botVars>>

\* telegram_bot.py:208-211: the clock is read; on minute 0 the hourly
\* snapshot is recorded; the loop has no try block, so an exception of
\* _collect_traffic_snapshot ends the thread.
RL_Hourly ==
  /\ lpc["report"] = "load"
  /\ lnow' = [lnow EXCEPT !["report"] = wall]
  /\ \/ LGoto("report", "report")
     \/ minute(wall) = 0 /\ LGoto("report", "dead")
  /\ UNCHANGED <<interval_seconds, env, mainVars, storeVars, aggVars, botVars,
                 wall, SCHEDULE_STATE, last_sent, handed>>

\* telegram_bot.py:212-217: in the minute of a target whose marker holds
\* another date _send_scheduled_report is called, again outside any try
\* block: it raises while it builds the report (telegram_bot.py:162-194), or
\* passes the report to _send (telegram_bot.py:195) and returns, and the
\* marker of the target takes the date.
RL_Scheduled ==
  /\ lpc["report"] = "report"
  /\ LET time == lnow["report"]
         falling == {target \in Targets : due(time, target, last_sent[target])}
     IN  IF falling = {}
           THEN LGoto("report", "sleep") /\ UNCHANGED <<last_sent, handed>>
           ELSE \E target \in falling :
                  \/ LGoto("report", "dead") /\ UNCHANGED <<last_sent, handed>>
                  \/ /\ Hand(target, time.date)
                     /\ last_sent' = [last_sent EXCEPT ![target] = time.date]
                     /\ LGoto("report", "sleep")
  /\ UNCHANGED <<interval_seconds, env, mainVars, storeVars, aggVars, botVars,
                 wall, lnow, SCHEDULE_STATE>>

\* telegram_bot.py:218: time.sleep(30).
RL_Sleep ==
  /\ lpc["report"] = "sleep"
  /\ LGoto("report", "load")
  /\ UNCHANGED <<interval_seconds, env, mainVars, storeVars, aggVars, schedVars, botVars>>

\* The wall clock moves on to the next of the minutes of the day, and from
\* the last of them to the first of the next date.
Minute ==
  /\ IF wall.at < Len(DayTimes)
       THEN wall' = [wall EXCEPT !.at = @ + 1]
       ELSE wall.date < MaxDate /\ wall' = [date |-> wall.date + 1, at |-> 1]
  /\ UNCHANGED <<env, mainVars, storeVars, aggVars, botVars, lpc,
                 interval_seconds, lnow, SCHEDULE_STATE, last_sent, handed>>

--------------------------------------------------------------------------
(* Specifications *)

Started ==
  /\ ALERT_STATE = << >>
  /\ REBUILD_LOCKS = << >>
  /\ pc = [p \in Procs |-> "idle"]
  /\ loc = [p \in Procs |-> NoLoc]
  /\ cfg = NoCfg
  /\ idx = 0
  /\ poll = NoPoll
  /\ report_file = NoFile
  /\ now = [hour |-> 0, on_hour |-> TRUE]
  /\ tpc = [t \in StoreProcs |-> "idle"]
  /\ tloc = [t \in StoreProcs |-> NoTLoc]
  /\ written = << >>
  /\ view = NoView
  /\ lpc = [l \in Loops |-> "load"]
  /\ interval_seconds = None
  /\ lnow = [l \in {"daily", "report"} |-> [date |-> 1, at |-> 1]]
  /\ SCHEDULE_STATE = [last_daily_report |-> None]
  /\ last_sent = [target \in Targets |-> None]
  /\ handed = [key \in Reports \X Dates |-> 0]
  /\ BOT_STATE = [update_offset |-> 0]
  /\ batch = NoBatch
  /\ executed = [update_id \in 1..MaxUpdates |-> [runs |-> 0, replies |-> 0]]

\* The program starts in the first minute of the first date, and Telegram
\* holds nothing for the bot.
Start == Started /\ wall = [date |-> 1, at |-> 1] /\ inbox = << >>

Workflow(p) ==
  \/ RS_GetServer(p) \/ RS_Image(p) \/ RS_Delete(p) \/ RS_Create(p) \/ PR_Dns(p)

Locked(p) ==
  \/ PR_Acquire(p) \/ PR_Start(p) \/ PR_Complete(p) \/ PR_Finally(p)

Monitor ==
  \/ MonLoad \/ MonPoll \/ MonAfterRebuild
  \/ Workflow("mon") \/ Locked("mon")

RebuildConfig ==
  [enabled |-> TRUE, levels |-> DefaultLevels, action |-> "rebuild", limit |-> LimitBytes]

\* The three threads, one server whose reading is on the limit, and the
\* configuration under which the monitor rebuilds.
Init ==
  /\ Start
  /\ series = << >>
  /\ env = [servers |-> <<1>>, outs |-> {100}, configs |-> {RebuildConfig},
            images |-> DefaultImages,
            records |-> DefaultRecords,
            notices |-> DefaultNotices]
  /\ notified = [sid \in {1} |-> << >>]
  /\ reset_from = [sid \in {1} |-> 0]

Manual ==
  \/ \E sid \in ServerIds : BotRebuild(sid)
  \/ BotReply
  \/ Workflow("bot") \/ Locked("bot")

Next ==
  \/ Monitor
  \/ Manual
  \/ \E sid \in ServerIds : ApiRebuild(sid)
  \/ ApiReturn
  \/ Workflow("api")

Spec == Init /\ [][Next]_vars

\* The two callers of _perform_rebuild over two servers.
InitLock ==
  /\ Start
  /\ series = << >>
  /\ env = [servers |-> <<1, 2>>, outs |-> {100}, configs |-> {RebuildConfig},
            images |-> DefaultImages,
            records |-> DefaultRecords,
            notices |-> DefaultNotices]
  /\ notified = [sid \in {1, 2} |-> << >>]
  /\ reset_from = [sid \in {1, 2} |-> 0]

NextLock == Monitor \/ Manual

SpecLock == InitLock /\ [][NextLock]_vars

\* The monitor alone, polling one server over the whole range of readings
\* and configurations.
InitMonitor ==
  /\ Start
  /\ series = << >>
  /\ env = [servers |-> <<1>>, outs |-> Readings, configs |-> Configs,
            images |-> DefaultImages,
            records |-> DefaultRecords,
            notices |-> DefaultNotices]
  /\ notified = [sid \in {1} |-> << >>]
  /\ reset_from = [sid \in {1} |-> 0]

SpecMonitor == InitMonitor /\ [][Monitor]_vars

\* The loops of the schedules and of the intake from the start of their
\* threads, in the first minute of the first date.
InitSchedule ==
  /\ Start
  /\ series = << >>
  /\ env = [servers |-> <<1>>, outs |-> {100}, configs |-> {RebuildConfig},
            images |-> DefaultImages,
            records |-> DefaultRecords,
            notices |-> DefaultNotices]
  /\ notified = [sid \in {1} |-> << >>]
  /\ reset_from = [sid \in {1} |-> 0]

\* The four loops from the start of their threads, at 11:55 of the first
\* date, with one command of the owner waiting at Telegram.
InitLoops ==
  /\ Started
  /\ wall = [date |-> 1, at |-> 2]
  /\ inbox = <<[update_id |-> 1, message |-> TRUE, chat |-> 7,
                 text |-> "/rebuild web"]>>
  /\ series = << >>
  /\ env = [servers |-> <<1>>, outs |-> {100}, configs |-> {RebuildConfig},
            images |-> DefaultImages,
            records |-> DefaultRecords,
            notices |-> DefaultNotices]
  /\ notified = [sid \in {1} |-> << >>]
  /\ reset_from = [sid \in {1} |-> 0]

MonitorLoop == ML_Load \/ ML_Parse \/ ML_Limit \/ ML_Poll \/ ML_Sleep

DailyLoop == DL_Load \/ DL_Check \/ DL_Report \/ DL_Sleep

BotLoop == BL_Load \/ BL_Check \/ BL_Poll \/ BL_Handle \/ BL_Command \/ BL_Sleep

ReportLoop == RL_Hourly \/ RL_Scheduled \/ RL_Sleep

NextLoops == MonitorLoop \/ DailyLoop \/ BotLoop \/ ReportLoop

\* The two report schedules while the clock moves.
NextSchedule == DailyLoop \/ ReportLoop \/ Minute

SpecSchedule == InitSchedule /\ [][NextSchedule]_vars

\* The command intake while updates arrive.
NextIntake == BotLoop \/ Arrive

SpecIntake == InitSchedule /\ [][NextIntake]_vars

\* Every thread that can take a step is scheduled in the end: the threads
\* are started at main.py:780-783 and telegram_bot.py:221-222, and every
\* call and sleep of an iteration returns.
SpecLoops ==
  /\ InitLoops /\ [][NextLoops]_vars
  /\ WF_vars(MonitorLoop) /\ WF_vars(DailyLoop)
  /\ WF_vars(BotLoop) /\ WF_vars(ReportLoop)

\* The /rebuild command alone over one server, under every configuration
\* of overrides and every list of snapshots.
InitImage ==
  /\ Start
  /\ series = << >>
  /\ \E input \in ImageInputs :
       env = [servers |-> <<1>>, outs |-> {100}, configs |-> {RebuildConfig},
              images |-> {input}, records |-> DefaultRecords,
            notices |-> DefaultNotices]
  /\ notified = [sid \in {1} |-> << >>]
  /\ reset_from = [sid \in {1} |-> 0]

SpecImage == InitImage /\ [][Manual]_vars

\* A rebuild from the bot over every record map of the server.
InitDns ==
  /\ Start
  /\ series = << >>
  /\ \E input \in RecordInputs :
       env = [servers |-> <<1>>, outs |-> {100}, configs |-> {RebuildConfig},
              images |-> {[by_id |-> None, by_name |-> None,
                           snapshots |-> <<[id |-> 21, created |-> 1]>>]},
              records |-> {input}, notices |-> DefaultNotices]
  /\ notified = [sid \in {1} |-> << >>]
  /\ reset_from = [sid \in {1} |-> 0]

SpecDns == InitDns /\ [][Manual]_vars

\* A rebuild from the bot under every outcome of its two notifications.
InitNotify ==
  /\ Start
  /\ series = << >>
  /\ env = [servers |-> <<1>>, outs |-> {100}, configs |-> {RebuildConfig},
            images |-> DefaultImages, records |-> DefaultRecords,
            notices |-> Notices]
  /\ notified = [sid \in {1} |-> << >>]
  /\ reset_from = [sid \in {1} |-> 0]

SpecNotify == InitNotify /\ [][Manual]_vars

\* The two threads of the bot over one server with two possible readings.
InitStore ==
  /\ Start
  /\ series = << >>
  /\ env = [servers |-> <<1>>, outs |-> {75, 100}, configs |-> {RebuildConfig},
            images |-> DefaultImages,
            records |-> DefaultRecords,
            notices |-> DefaultNotices]
  /\ notified = [sid \in {1} |-> << >>]
  /\ reset_from = [sid \in {1} |-> 0]

Store(t) ==
  \/ REC_Load(t) \/ REC_Collect(t) \/ SAVE_Open(t) \/ SAVE_Dump(t)
  \/ REP_Load(t) \/ REP_Collect(t)

NextStore ==
  \/ RT_Hourly \/ RT_Scheduled \/ cmd_report \/ cmd_reportreset \/ Tick
  \/ \E t \in StoreProcs : Store(t)

SpecStore == InitStore /\ [][NextStore]_vars

\* The writers of the hourly series alone: the report thread and /report.
NextWriters ==
  \/ RT_Hourly \/ RT_Scheduled \/ cmd_report \/ Tick
  \/ \E t \in StoreProcs : Store(t)

SpecWriters == InitStore /\ [][NextWriters]_vars

\* The ids a snapshot may list, and the names they may carry: a rebuilt
\* server keeps its name under a new id.
AggSids == {1, 2}

NamesOf(sid) == IF sid = 1 THEN {"web"} ELSE {"web", "db"}

\* Readings that differ by a quarter, a half and three quarters of 0.001 TB.
AggBytes == {0, 1, 3}

AggInbound == {0, 2}

Entries(outs, inbs) ==
  [name : {"web", "db"}, out : outs \cup {None}, inb : inbs \cup {None}]

\* telegram_bot.py:101-112: every snapshot over the ids and the readings.
SnapshotsOver(outs, inbs) ==
  UNION {{f \in [S -> Entries(outs, inbs)] : \A sid \in S : f[sid].name \in NamesOf(sid)} :
          S \in SUBSET AggSids}

\* Two consecutive snapshots, both directions.
InitDelta ==
  /\ Start
  /\ env = [servers |-> <<1>>, outs |-> {100}, configs |-> {RebuildConfig},
            images |-> DefaultImages,
            records |-> DefaultRecords,
            notices |-> DefaultNotices]
  /\ notified = [sid \in {1} |-> << >>]
  /\ reset_from = [sid \in {1} |-> 0]
  /\ \E prev, curr \in SnapshotsOver(AggBytes, AggInbound) : series = <<prev, curr>>

NextDelta ==
  \/ \E i \in 1..Len(series) : DeltaByName(i)
  \/ FormatHourlyReport
  \/ \E i \in 1..Len(series) : ScheduledReport(i)
  \/ Respond

SpecDelta == InitDelta /\ [][NextDelta]_vars

\* The longest stored series.
MaxKeys == 3

\* The entries of the stored series: an absent outbound reading, a low and a
\* high reading.
EntryAbsentOut(name) == [name |-> name, out |-> None, inb |-> 0]

EntryLow(name) == [name |-> name, out |-> 1, inb |-> None]

EntryHigh(name) == [name |-> name, out |-> 3, inb |-> 2]

\* Server 1 is "web"; server 2 is a second "web" (the rebuilt one, or a
\* namesake) or "db".
SeriesSnapshots ==
  LET first == {<< >>} \cup {[sid \in {1} |-> e] :
                   e \in {EntryAbsentOut("web"), EntryHigh("web")}}
      second == {<< >>} \cup {[sid \in {2} |-> e] :
                   e \in {EntryLow("web"), EntryHigh("web"), EntryHigh("db")}}
  IN  {[sid \in DOMAIN a \cup DOMAIN b |-> IF sid \in DOMAIN a THEN a[sid] ELSE b[sid]] :
         a \in first, b \in second}

\* Every stored series of up to MaxKeys hours.
InitSeries ==
  /\ Start
  /\ env = [servers |-> <<1>>, outs |-> {100}, configs |-> {RebuildConfig},
            images |-> DefaultImages,
            records |-> DefaultRecords,
            notices |-> DefaultNotices]
  /\ notified = [sid \in {1} |-> << >>]
  /\ reset_from = [sid \in {1} |-> 0]
  /\ \E n \in 0..MaxKeys : series \in [1..n -> SeriesSnapshots]

\* The servers the provider lists when a view is requested.
Listed == {{1, 2}, {2}, {}}

\* The configured tracking start: none, an hour between the first two stored
\* keys, the second stored key, an hour past every stored key.
TrackingStarts == {None, 3, 4, 2 * MaxKeys + 3}

NextSeries ==
  \/ \E i \in 1..Len(series) : DeltaByName(i)
  \/ \E include_ids \in Listed : api_cycle(include_ids)
  \/ api_daily
  \/ \E tracking_start \in TrackingStarts : api_servers_tracking(tracking_start)
  \/ TrackingDeltas
  \/ Respond

SpecSeries == InitSeries /\ [][NextSeries]_vars

\* telegram_bot.py:107-111: a server is stored under the name the provider
\* gives, or under its id when it gives none. Server 1 without a name, over
\* an absent reading and three readings 0.001 TB apart; server 2 is "db".
CycleSnapshots ==
  LET first == {<< >>} \cup {[sid \in {1} |-> [name |-> str(1), out |-> out, inb |-> None]] :
                               out \in {None, 1, 5, 9}}
      second == {<< >>} \cup {[sid \in {2} |-> e] : e \in {EntryLow("db"), EntryHigh("db")}}
  IN  {[sid \in DOMAIN a \cup DOMAIN b |-> IF sid \in DOMAIN a THEN a[sid] ELSE b[sid]] :
         a \in first, b \in second}

\* Every stored series of up to MaxKeys hours of these servers.
InitCycle ==
  /\ Start
  /\ env = [servers |-> <<1>>, outs |-> {100}, configs |-> {RebuildConfig},
            images |-> DefaultImages, records |-> DefaultRecords,
            notices |-> DefaultNotices]
  /\ notified = [sid \in {1} |-> << >>]
  /\ reset_from = [sid \in {1} |-> 0]
  /\ \E n \in 0..MaxKeys : series \in [1..n -> CycleSnapshots]

NextCycle ==
  \/ \E include_ids \in Listed : api_cycle(include_ids)
  \/ api_servers_rebuilds
  \/ Respond

SpecCycle == InitCycle /\ [][NextCycle]_vars

\* The lists of up to n items.
ListsUpTo(n) == UNION {[1..m -> Items] : m \in 0..n}

\* Every notify_levels setting of up to MaxItems items, and one that is no
\* list.
LevelSettings == {ListOf(items) : items \in ListsUpTo(MaxItems)} \cup {NotAList}

InitLevels ==
  /\ Start
  /\ series = << >>
  /\ env = [servers |-> <<1>>, outs |-> {100}, configs |-> {RebuildConfig},
            images |-> DefaultImages, records |-> DefaultRecords,
            notices |-> DefaultNotices]
  /\ notified = [sid \in {1} |-> << >>]
  /\ reset_from = [sid \in {1} |-> 0]

NextLevels ==
  \/ \E raw_levels \in LevelSettings : ParseLevels(raw_levels)
  \/ Respond

SpecLevels == InitLevels /\ [][NextLevels]_vars

--------------------------------------------------------------------------
(* Claims about the rebuild workflow and its lock *)

Other(p) == CHOOSE q \in LockProcs : q # p

\* The destroy -> recreate -> DNS update part of a call.
InWorkflow(p, sid) ==
  loc[p].sid = sid /\ pc[p] \in {"lookup", "image", "delete", "create", "dns"}

\* C1: in every reachable state at most one thread, whichever entry point it
\* came through (the monitor, the bot's /rebuild, POST /api/rebuild), is inside
\* the destroy -> recreate -> DNS workflow of a given server id.
C1_OneWorkflowPerServer ==
  \A sid \in ServerIds : Cardinality({p \in Procs : InWorkflow(p, sid)}) <= 1

\* A call of _perform_rebuild that holds the lock of sid.
Running(p, sid) == pc[p] \in Body /\ loc[p].sid = sid

\* C2: never are two _perform_rebuild calls for one server id both past the
\* acquire; a call at the acquire can always take its step (it never waits);
\* that step returns 'rebuild in progress' at once and leaves the other call
\* alone when the other call is running for the same id, and enters the
\* workflow otherwise, in particular when the other call is for another id.
C2_ExactlyOneProceeds ==
  /\ [](\A sid \in ServerIds : ~(Running("mon", sid) /\ Running("bot", sid)))
  /\ [](\A p \in LockProcs : pc[p] = "acquire" => ENABLED PR_Acquire(p))
  /\ [][\A p \in LockProcs :
          (pc[p] = "acquire" /\ pc'[p] # "acquire") =>
            IF Running(Other(p), loc[p].sid)
              THEN /\ pc'[p] = "ret"
                   /\ loc'[p].result = "in_progress"
                   /\ pc'[Other(p)] = pc[Other(p)]
              ELSE /\ pc'[p] = "start"
                   /\ loc'[p].result = "none"]_vars

\* One call is rejected while the other runs the workflow for the same id.
C2_Witness ==
  /\ pc["bot"] = "ret" /\ loc["bot"].result = "in_progress"
  /\ Running("mon", loc["bot"].sid) /\ pc["mon"] = "create"

\* C3: a lock is held only by a call of _perform_rebuild that is still
\* running for that id; once a call that acquired it has finished, with
\* whatever result, the lock is free again.
C3_LockFreeAfterCall ==
  \A sid \in ServerIds :
    /\ \A p \in LockProcs : LockOf(sid) = p => Running(p, sid)
    /\ (\A p \in LockProcs : ~Running(p, sid)) => LockOf(sid) = Free

\* A call that acquired the lock has ended by an exception of the workflow,
\* and the lock of its id is free.
C3_Witness ==
  /\ pc["mon"] = "ret" /\ loc["mon"].result = "exception"
  /\ loc["mon"].sid \in DOMAIN REBUILD_LOCKS
  /\ REBUILD_LOCKS[loc["mon"].sid] = Free

\* The DNS step of the call of p has ended.
DnsEnded(p) == pc[p] \in {"complete", "finally", "ret"} /\ loc[p].dns # "none"

\* C17: once rebuild_server has returned the created server the call reaches
\* the DNS step, and whatever the outcome of that step (no mapping, no record
\* of that name, DnsAttempts failed attempts, updated) the outcome is kept for
\* the dns field of the result and the call returns success = true.
C17_DnsOutcomeNeverFails ==
  \A p \in LockProcs :
    /\ (loc[p].result = "ok" /\ pc[p] \in {"complete", "finally", "ret"}) =>
         loc[p].dns \in {"no_mapping", "no_record", "failed", "ok"}
    /\ DnsEnded(p) => loc[p].result = "ok" /\ loc[p].success \in {"none", "true"}
    /\ (DnsEnded(p) /\ pc[p] \in {"finally", "ret"}) => loc[p].success = "true"

\* The automatic rebuild has returned success after three failed DNS updates.
C17_Witness ==
  /\ pc["mon"] = "ret" /\ loc["mon"].result = "ok"
  /\ loc["mon"].dns = "failed" /\ loc["mon"].success = "true"

\* C18: when delete_server fails the call returns the failure result that
\* carries the delete error, and for the rest of the call no create request
\* is issued, no DNS update is attempted and no completion notification is
\* sent; the call only leaves through the finally clause.
C18_DeleteFailureStops ==
  \A p \in LockProcs :
    loc[p].result = "delete_failed" =>
      /\ pc[p] \in {"finally", "ret"}
      /\ loc[p].success = "false"
      /\ ~loc[p].deleted /\ loc[p].creates = 0
      /\ loc[p].dns = "none" /\ ~loc[p].done

\* A /rebuild whose delete failed has returned, with the lock free again.
C18_Witness ==
  /\ pc["bot"] = "ret" /\ loc["bot"].result = "delete_failed"
  /\ loc["bot"].success = "false" /\ loc["bot"].creates = 0
  /\ LockOf(loc["bot"].sid) = Free

\* C19: create requests are issued only after a successful delete and at
\* most CreateAttempts of them per call; the request that returns a server is
\* the last one; when CreateAttempts requests have failed the call returns
\* success = false with the old server deleted, without a DNS step, and the
\* monitor leaves auto_rebuild of the server as it was.
C19_CreateRetries ==
  /\ [](\A p \in LockProcs :
          /\ loc[p].creates <= CreateAttempts
          /\ loc[p].creates > 0 => loc[p].deleted
          /\ pc[p] = "create" => loc[p].creates < CreateAttempts
          /\ loc[p].result = "create_failed" =>
               /\ pc[p] \in {"finally", "ret"}
               /\ loc[p].creates = CreateAttempts /\ loc[p].deleted
               /\ loc[p].success = "false"
               /\ loc[p].dns = "none" /\ ~loc[p].done)
  /\ [][\A p \in LockProcs :
          /\ (loc'[p].creates # loc[p].creates /\ loc'[p] # NoLoc) =>
               /\ pc[p] = "create" /\ loc'[p].creates = loc[p].creates + 1
               /\ loc'[p].result = "ok" => pc'[p] = "dns"
          /\ (loc[p].result = "ok" /\ loc'[p] # NoLoc) =>
               loc'[p].creates = loc[p].creates]_vars
  /\ [][(pc["mon"] = "ret" /\ loc["mon"].result = "create_failed") =>
          /\ loc["mon"].sid \in DOMAIN ALERT_STATE'
          /\ ALERT_STATE'[loc["mon"].sid].auto_rebuild
               = AlertOf(loc["mon"].sid).auto_rebuild
          /\ ~ALERT_STATE'[loc["mon"].sid].auto_rebuild]_vars

\* The monitor is back from a call whose three create requests all failed.
C19_Witness ==
  /\ pc["mon"] = "ret" /\ loc["mon"].result = "create_failed"
  /\ loc["mon"].creates = CreateAttempts /\ loc["mon"].deleted
  /\ loc["mon"].success = "false"
  /\ ~AlertOf(loc["mon"].sid).auto_rebuild

\* The overrides and the snapshots the run is given.
GivenImages == CHOOSE input \in env.images : TRUE

\* The snapshot of the given list that was created last.
IsNewest(id) ==
  \E i \in 1..Len(GivenImages.snapshots) :
    /\ GivenImages.snapshots[i].id = id
    /\ \A j \in 1..Len(GivenImages.snapshots) :
         GivenImages.snapshots[j].created <= GivenImages.snapshots[i].created

\* C25: the image is resolved before the delete: a call that has reached the
\* delete has an image, which is the override under the server's id when
\* there is one, else the override under its name, else the snapshot created
\* last; a call with no override and no snapshot returns the 'no snapshot'
\* failure without having deleted or created anything.
C25_ImageBeforeDelete ==
  /\ [](\A p \in LockProcs :
          /\ pc[p] \in {"delete", "create", "dns", "complete"} => loc[p].image # None
          /\ (loc[p].deleted \/ loc[p].creates > 0) => loc[p].image # None
          /\ loc[p].image # None =>
               IF GivenImages.by_id # None THEN loc[p].image = GivenImages.by_id
               ELSE IF GivenImages.by_name # None
                 THEN loc[p].image = GivenImages.by_name
               ELSE IsNewest(loc[p].image)
          /\ loc[p].result = "no_snapshot" =>
               /\ GivenImages.by_id = None /\ GivenImages.by_name = None
               /\ GivenImages.snapshots = << >>
               /\ pc[p] \in {"finally", "ret"} /\ loc[p].success = "false"
               /\ ~loc[p].deleted /\ loc[p].creates = 0)
  /\ [][\A p \in LockProcs :
          (pc[p] = "image" /\ pc'[p] # "image") =>
            IF /\ GivenImages.by_id = None /\ GivenImages.by_name = None
               /\ GivenImages.snapshots = << >>
              THEN pc'[p] = "finally" /\ loc'[p].result = "no_snapshot"
              ELSE pc'[p] = "delete" /\ loc'[p].result = "none"]_vars

\* Without an override, the later of two snapshots, listed after the earlier
\* one, is the image of a call that has deleted the server.
C25_Witness ==
  /\ GivenImages.by_id = None /\ GivenImages.by_name = None
  /\ Len(GivenImages.snapshots) = 2 /\ GivenImages.snapshots[1].id = 21
  /\ loc["bot"].deleted /\ loc["bot"].image = 22

\* The record map the run is given, and what its two entries resolve to.
GivenRecords == CHOOSE input \in env.records : TRUE

UsableById ==
  resolve_cf_record(GivenRecords.by_id, GivenRecords.zone_id, GivenRecords.api_token)

UsableByName ==
  resolve_cf_record(GivenRecords.by_name, GivenRecords.zone_id, GivenRecords.api_token)

\* C26: a _perform_rebuild whose DNS step has ended has updated the record of
\* the usable entry of the record map, found under the server's id or under
\* its name, and has skipped the update only when neither key has a usable
\* entry.
C26_RecordByIdOrName ==
  \A p \in LockProcs :
    loc[p].dns # "none" =>
      IF UsableById # Unresolved
        THEN loc[p].dns # "no_mapping" /\ loc[p].record = UsableById.record
      ELSE IF UsableByName # Unresolved
        THEN loc[p].dns # "no_mapping" /\ loc[p].record = UsableByName.record
      ELSE loc[p].dns = "no_mapping" /\ loc[p].record = None

\* What a call has done apart from its notifications.
Outcome(l) == <<l.sid, l.result, l.deleted, l.creates, l.image, l.dns, l.record>>

\* C27: the 'rebuild triggered' notification is attempted before the lookup
\* and the delete, and whatever becomes of it the call goes on to the lookup
\* with nothing else changed; the completion notification is attempted only
\* after a successful create and after the DNS step, its text carries the DNS
\* outcome, and whatever becomes of it the call returns success = true with
\* the rebuild result and the DNS outcome it had.
C27_NoticesBestEffort ==
  /\ [](\A p \in LockProcs :
          /\ pc[p] \in {"lookup", "image", "delete", "create", "dns", "complete"} =>
               loc[p].start # "none"
          /\ (loc[p].result # "none" \/ loc[p].deleted) =>
               (loc[p].start # "none" \/ loc[p].result = "in_progress")
          /\ pc[p] \in {"start", "lookup", "image", "delete", "create", "dns", "complete"} =>
               loc[p].end = "none"
          /\ loc[p].end # "none" =>
               /\ loc[p].result = "ok" /\ loc[p].creates > 0
               /\ loc[p].dns # "none" /\ loc[p].success = "true"
               /\ loc[p].end # "off" => loc[p].text = dns_text(loc[p].dns)
          /\ (pc[p] \in {"finally", "ret"} /\ loc[p].result = "ok") =>
               loc[p].end # "none" /\ loc[p].success = "true")
  /\ [][\A p \in LockProcs :
          /\ pc[p] = "start" /\ pc'[p] # "start" =>
               /\ pc'[p] = "lookup" /\ loc'[p].start \in Notices
               /\ loc'[p] = [loc[p] EXCEPT !.start = loc'[p].start]
          /\ pc[p] = "complete" /\ pc'[p] # "complete" =>
               /\ pc'[p] = "finally" /\ loc'[p].end \in Notices
               /\ Outcome(loc'[p]) = Outcome(loc[p])
               /\ loc'[p].success = "true"]_vars

\* A /rebuild has returned success after both of its notifications failed to
\* be delivered and the DNS update failed.
C27_Witness ==
  /\ pc["bot"] = "ret" /\ loc["bot"].result = "ok" /\ loc["bot"].success = "true"
  /\ loc["bot"].start = "failed" /\ loc["bot"].end = "failed"
  /\ loc["bot"].dns = "failed" /\ loc["bot"].text = "failed"

--------------------------------------------------------------------------
(* Claims about the alert state machine of the monitor *)

\* A step in which the monitor processes one listed server.
PollStep ==
  /\ pc["mon"] = "pass"
  /\ pc'["mon"] \in {"pass", "idle", "acquire"}
  /\ poll' # poll

\* A monitor step that read `sid` lower than the last_outgoing stored for it.
RollbackPoll(sid) ==
  /\ PollStep
  /\ poll'.sid = sid
  /\ poll'.out # None
  /\ AlertOf(sid).last_outgoing # None
  /\ poll'.out < AlertOf(sid).last_outgoing

\* The highest of the thresholds {80, 90, 95, 100} that a reading reaches.
IsHighestReached(level, out) ==
  /\ level \in {80, 90, 95, 100}
  /\ out * 100 >= level * LimitBytes
  /\ \A t \in {80, 90, 95, 100} : out * 100 >= t * LimitBytes => t <= level

\* C4: over readings of one server that rise from poll to poll under the
\* thresholds {80, 90, 95, 100}, the delivered notifications have strictly
\* increasing levels (so none is delivered twice), and the one a poll
\* delivers is for the highest threshold its reading reaches.
C4_EachLevelOnceInOrder ==
  /\ \A sid \in ServerIds :
       \A i, j \in 1..Len(notified[sid]) :
         /\ notified[sid][i] \in {80, 90, 95, 100}
         /\ i < j => notified[sid][i] < notified[sid][j]
  /\ (poll.sent # 0 /\ poll.cfg.levels = {80, 90, 95, 100}) =>
       /\ IsHighestReached(poll.sent, poll.out)
       /\ Len(notified[poll.sid]) > 0
       /\ notified[poll.sid][Len(notified[poll.sid])] = poll.sent

\* 75% then 96%: level 95 alone has been delivered.
C4_Witness ==
  /\ poll.prev = 75 /\ poll.out = 96 /\ poll.sent = 95
  /\ notified[poll.sid] = <<95>>

\* C5: a poll that reads less than the stored last_outgoing stores the new
\* reading, clears auto_rebuild and leaves last_level at 0, or at the level it
\* notified itself when the new reading reaches a threshold; when the reading
\* reaches none, it notifies nothing and the state is {0, reading, false}.
\* A poll that finds last_level 0 (after such a reset) and reads 80% or more
\* hands the notification of the highest reached level to Telegram when
\* notifications are enabled, and last_level follows its delivery.
C5_RollbackResets ==
  [][\A sid \in ServerIds :
      (PollStep /\ poll'.sid = sid /\ poll'.out # None) =>
        LET after == ALERT_STATE'[sid]
            out == poll'.out
            level0 == IF RollbackPoll(sid) THEN 0 ELSE AlertOf(sid).last_level
        IN  /\ RollbackPoll(sid) =>
                 /\ after.last_outgoing = out
                 /\ after.auto_rebuild = FALSE
                 /\ after.last_level \in {0, poll'.sent}
                 /\ (\A t \in cfg.levels : out * 100 < t * LimitBytes) =>
                      /\ poll'.tried = 0 /\ poll'.sent = 0
                      /\ after = [last_level |-> 0, last_outgoing |-> out,
                                  auto_rebuild |-> FALSE]
            /\ (level0 = 0 /\ cfg.levels = {80, 90, 95, 100}
                   /\ out * 100 >= 80 * LimitBytes) =>
                 /\ cfg.enabled => IsHighestReached(poll'.tried, out)
                 /\ poll'.sent \in {0, poll'.tried}
                 /\ after.last_level = poll'.sent]_vars

\* Level 90 had been notified, a rollback reset the state, and a later poll
\* of a higher reading has notified level 80 again.
C5_Witness ==
  /\ poll.sid \in ServerIds
  /\ reset_from[poll.sid] = 90
  /\ poll.level = 0 /\ poll.sent = 80
  /\ poll.prev # None /\ poll.prev < poll.out

\* C6: last_level of a server decreases in no step other than a poll of that
\* server which read less than the stored last_outgoing, whatever threshold
\* list each poll is configured with.
C6_LevelOnlyDropsOnRollback ==
  [][\A sid \in DOMAIN ALERT_STATE :
      ALERT_STATE'[sid].last_level < ALERT_STATE[sid].last_level =>
        RollbackPoll(sid)]_vars

\* After level 90 under the default list, a poll under the list {50, 120}
\* read 96% and left last_level at 90.
C6_Witness ==
  /\ poll.sid \in DOMAIN ALERT_STATE
  /\ poll.cfg.levels = {50, 120}
  /\ poll.level = 90 /\ poll.prev = 92 /\ poll.out = 96
  /\ ALERT_STATE[poll.sid].last_level = 90

\* C7: while auto_rebuild of a server is true, the monitor calls
\* _perform_rebuild for it, and auto_rebuild turns false, in no step other
\* than a poll that read less than the stored last_outgoing.
C7_NoSecondAutoRebuild ==
  [][\A sid \in DOMAIN ALERT_STATE :
      ALERT_STATE[sid].auto_rebuild =>
        /\ (pc["mon"] = "pass" /\ pc'["mon"] = "acquire" /\ loc'["mon"].sid = sid)
             => RollbackPoll(sid)
        /\ ~ALERT_STATE'[sid].auto_rebuild => RollbackPoll(sid)]_vars

\* With auto_rebuild true, a later poll under the rebuild policy read at least
\* the limit, went past the threshold checks (it notified level 100) and did
\* not call _perform_rebuild.
C7_Witness ==
  /\ poll.sid \in DOMAIN ALERT_STATE
  /\ ALERT_STATE[poll.sid].auto_rebuild
  /\ poll.cfg.action = "rebuild" /\ poll.out >= LimitBytes
  /\ poll.prev # None /\ poll.prev <= poll.out
  /\ poll.tried = 100 /\ ~poll.called

\* C8: a poll under the rebuild policy that reads at least the limit while
\* auto_rebuild is false calls _perform_rebuild, whether or not it notified a
\* threshold and whether or not an earlier attempt failed.
C8_RebuildOnEveryOveragePoll ==
  (/\ poll.out # None
   /\ poll.cfg.action = "rebuild"
   /\ poll.out >= LimitBytes
   /\ ~AlertOf(poll.sid).auto_rebuild) => poll.called

\* The thresholds of the pass that the reading of the poll reaches.
ReachedBy(out) == {level \in cfg.levels : out * 100 >= level * LimitBytes}

\* last_level of sid as the poll compares against it: 0 after the rollback
\* reset of this very poll, else the stored value.
LevelAtCheck(sid) == IF RollbackPoll(sid) THEN 0 ELSE AlertOf(sid).last_level

\* The poll of sid reaches a threshold above `level`.
Crossing(sid, level) ==
  /\ PollStep /\ poll'.sid = sid /\ poll'.out # None
  /\ ReachedBy(poll'.out) # {}
  /\ \E t \in ReachedBy(poll'.out) : t > level

\* The poll of sid reaches no threshold, or none above `level`.
NotCrossing(sid, level) ==
  /\ PollStep /\ poll'.sid = sid /\ poll'.out # None
  /\ \A t \in ReachedBy(poll'.out) : t <= level

\* C23 (as the code has it): a poll whose highest reached threshold exceeds
\* last_level (as it stands after the rollback reset of that poll) hands one
\* notification for that threshold to Telegram when notifications are
\* enabled and configured, and none otherwise; last_level becomes that
\* threshold when the notification was delivered and keeps its value when it
\* was not sent or not delivered.
C23_CrossingNotifies ==
  [][\A sid \in ServerIds :
      Crossing(sid, LevelAtCheck(sid)) =>
        /\ poll'.tried = IF cfg.enabled THEN Max(ReachedBy(poll'.out)) ELSE 0
        /\ poll'.sent \in {0, poll'.tried}
        /\ ALERT_STATE'[sid].last_level =
             IF poll'.sent # 0 THEN Max(ReachedBy(poll'.out)) ELSE LevelAtCheck(sid)]_vars

\* Level 80 had been delivered; a poll of 96% has delivered level 95 and
\* last_level is 95.
C23_Witness ==
  /\ poll.sid \in DOMAIN ALERT_STATE
  /\ poll.cfg.levels = {80, 90, 95, 100}
  /\ poll.level = 80 /\ poll.out = 96
  /\ poll.tried = 95 /\ poll.sent = 95
  /\ ALERT_STATE[poll.sid].last_level = 95

\* C23 (as stated): a poll whose highest reached threshold exceeds the stored
\* last_level sets last_level to that threshold and emits one notification
\* for it.
C23_CrossingSetsLevel ==
  [][\A sid \in ServerIds :
      Crossing(sid, AlertOf(sid).last_level) =>
        /\ poll'.sent = Max(ReachedBy(poll'.out))
        /\ ALERT_STATE'[sid].last_level = Max(ReachedBy(poll'.out))]_vars

\* C24 (as the code has it): a poll that reaches no threshold, or none above
\* last_level as it stands after the rollback reset of that poll, hands no
\* notification to Telegram, does not call _perform_rebuild, and leaves
\* last_level and auto_rebuild at those values: apart from the rollback
\* reset only last_outgoing is updated.
C24_NoCrossingNoChange ==
  [][\A sid \in ServerIds :
      NotCrossing(sid, LevelAtCheck(sid)) =>
        /\ poll'.tried = 0 /\ poll'.sent = 0 /\ ~poll'.called
        /\ ALERT_STATE'[sid] =
             [last_level |-> LevelAtCheck(sid),
              last_outgoing |-> poll'.out,
              auto_rebuild |-> IF RollbackPoll(sid) THEN FALSE
                               ELSE AlertOf(sid).auto_rebuild]]_vars

\* Level 95 had been delivered; a poll that read 96% again has notified
\* nothing and last_level is still 95.
C24_Witness ==
  /\ poll.sid \in DOMAIN ALERT_STATE
  /\ poll.cfg.levels = {80, 90, 95, 100} /\ poll.cfg.enabled
  /\ poll.level = 95 /\ poll.prev = 96 /\ poll.out = 96
  /\ poll.tried = 0 /\ poll.sent = 0
  /\ ALERT_STATE[poll.sid].last_level = 95

\* C24 (as stated): a poll that reaches no threshold, or none above the
\* stored last_level, emits no notification and leaves last_level unchanged.
C24_StoredLevelUnchanged ==
  [][\A sid \in ServerIds :
      NotCrossing(sid, AlertOf(sid).last_level) =>
        /\ poll'.tried = 0 /\ poll'.sent = 0
        /\ ALERT_STATE'[sid].last_level = AlertOf(sid).last_level]_vars

--------------------------------------------------------------------------
(* Claims about the report-state store *)

\* C9: a call of _record_hourly_snapshot that finds its hour key in the
\* stored series returns from that very step: the file, and so every hour key
\* and every reading under it, is what it was before the call, and the call
\* goes on to no collect, open or dump that could put fresh readings under
\* the key.
C9_RecordExistingKeyIsNoOp ==
  [][\A t \in StoreProcs :
      (/\ tpc[t] = "record" /\ tpc'[t] # "record"
       /\ report_file.kind = "json"
       /\ tloc[t].hour_key \in DOMAIN report_file.state.hourly) =>
        /\ report_file' = report_file
        /\ tpc'[t] \in {"idle", "report_load"}]_vars

\* The call of _record_hourly_snapshot made by /report at minute 55 has found
\* the key the report thread stored on minute 0, and has returned with the
\* file holding under that key the snapshot first written there.
C9_Witness ==
  /\ tpc["handler"] = "report_load" /\ tloc["handler"].found
  /\ tloc["handler"].stamp = tloc["handler"].hour_key * 60 + 55
  /\ report_file.kind = "json"
  /\ tloc["handler"].hour_key \in DOMAIN report_file.state.hourly
  /\ report_file.state.hourly[tloc["handler"].hour_key]
       = written[tloc["handler"].hour_key]

\* C10: whenever the file holds a document, every hour key that a completed
\* write has ever persisted is in its "hourly" series with the snapshot first
\* written under it.
C10_AppendOnly ==
  report_file.kind = "json" =>
    \A k \in DOMAIN written :
      /\ k \in DOMAIN report_file.state.hourly
      /\ report_file.state.hourly[k] = written[k]

\* C11: while only the report thread and the report handlers write the file,
\* (a) whenever the file holds a document, every hour key a completed write
\* has persisted is in its series; (b) whenever no writer is between its open
\* and its dump, the file is absent or holds a document; (c) no load of the
\* state reads a file that is open for writing or holds no document.
C11_WritersSerialized ==
  /\ [](report_file.kind = "json" =>
          DOMAIN written \subseteq DOMAIN report_file.state.hourly)
  /\ []((\A t \in StoreProcs : tpc[t] \notin {"record_dump", "save_dump"}) =>
          report_file.kind # "unreadable")
  /\ [][\A t \in StoreProcs :
          (tpc[t] \in {"record", "report_load"} /\ tpc'[t] # tpc[t]) =>
            report_file.kind # "unreadable"]_vars

--------------------------------------------------------------------------
(* Claims about the aggregation *)

\* The entries of curr under `name` whose pair of readings in direction dir
\* is present and does not decrease.
Producing(prev, curr, name, dir) ==
  {sid \in DOMAIN curr :
     /\ curr[sid].name = name
     /\ sid \in DOMAIN prev
     /\ ReadingOf(prev, sid, dir) # None /\ ReadingOf(curr, sid, dir) # None
     /\ ReadingOf(curr, sid, dir) >= ReadingOf(prev, sid, dir)}

Diff(prev, curr, sid, dir) == ReadingOf(curr, sid, dir) - ReadingOf(prev, sid, dir)

\* r is d rounded half-up to a whole number of 0.001 TB (d >= 0).
IsRounded(r, d) ==
  /\ r % UnitsPerMilliTB = 0
  /\ 2 * (r - d) <= UnitsPerMilliTB
  /\ 2 * (d - r) < UnitsPerMilliTB

IsExact(r, d) == r = d

\* What the latest view reports, where Rel relates a reported delta to the
\* difference of the two readings it was computed from.
DeltasAre(Rel(_, _)) ==
  /\ view.name = "delta_by_name" =>
       LET prev == series[view.at - 1]
           curr == series[view.at]
       IN  \A name \in DOMAIN view.value :
             LET P == Producing(prev, curr, name, "out")
                 Q == Producing(prev, curr, name, "inb")
             IN  /\ view.value[name].has_out = (P # {})
                 /\ view.value[name].has_in = (Q # {})
                 /\ view.value[name].out >= 0 /\ view.value[name].inb >= 0
                 /\ \E r \in [P -> 0..(view.value[name].out)] :
                      /\ \A sid \in P : Rel(r[sid], Diff(prev, curr, sid, "out"))
                      /\ view.value[name].out = SumOf(r)
                 /\ \E r \in [Q -> 0..(view.value[name].inb)] :
                      /\ \A sid \in Q : Rel(r[sid], Diff(prev, curr, sid, "inb"))
                      /\ view.value[name].inb = SumOf(r)
  /\ view.name = "hourly_report" =>
       \A i \in DOMAIN view.value : \A sid \in DOMAIN view.value[i] :
         LET d == view.value[i][sid]
         IN  /\ d.has = (sid \in Producing(series[i], series[i + 1],
                                            series[i + 1][sid].name, "out"))
             /\ d.has => d.tb >= 0 /\ Rel(d.tb, Diff(series[i], series[i + 1], sid, "out"))
  /\ view.name = "report_interval" =>
       \A sid \in DOMAIN view.value :
         LET d == view.value[sid]
             prev == series[view.at - 1]
             curr == series[view.at]
         IN  /\ d.has = (sid \in Producing(prev, curr, curr[sid].name, "out"))
             /\ d.has => d.tb >= 0 /\ Rel(d.tb, Diff(prev, curr, sid, "out"))

\* C12 (as the code has it): in _delta_by_name, the hourly report and the
\* interval of the scheduled report, a delta is produced for an entry and a
\* direction exactly when both readings are present and curr >= prev; it is
\* then curr - prev rounded half-up to 0.001 TB, never negative; a lower curr
\* produces none; and the deltas under one name add up.
C12_DeltaRounded == DeltasAre(IsRounded)

\* _delta_by_name has answered for a pair in which "web" rose by three
\* quarters of 0.001 TB (reported as 0.001) and "db" fell (no delta).
C12_Witness ==
  /\ view.name = "delta_by_name"
  /\ DOMAIN series[view.at] = {1, 2} /\ DOMAIN series[view.at - 1] = {1, 2}
  /\ series[view.at][1].name = "web" /\ series[view.at][2].name = "db"
  /\ series[view.at - 1][1].out = 0 /\ series[view.at][1].out = 3
  /\ series[view.at - 1][2].out = 3 /\ series[view.at][2].out = 1
  /\ view.value["web"].has_out /\ view.value["web"].out = UnitsPerMilliTB
  /\ ~view.value["db"].has_out

\* C12 (as stated): the same, with every produced delta equal to curr - prev
\* exactly.
C12_DeltaExact == DeltasAre(IsExact)

\* Between keys i - 1 and i the server named alike changes its id from
\* `old` to `new`.
IdChange(i, old, new) ==
  /\ i \in 2..Len(series) /\ old # new
  /\ old \in DOMAIN series[i - 1] /\ old \notin DOMAIN series[i]
  /\ new \in DOMAIN series[i] /\ new \notin DOMAIN series[i - 1]
  /\ series[i - 1][old].name = series[i][new].name
  /\ series[i - 1][old].out # None /\ series[i][new].out # None

\* C13: where a server keeps its name and changes its id between two
\* consecutive keys, _delta_by_name produces no outbound delta under that name
\* for the pair, and the cycle view of the server flags the later key as a
\* rollover and shows, for the pairs before it, the deltas the server had
\* under its old id.
C13_IdChangeIsOneSubject ==
  \A old, new \in AggSids :
    /\ (view.name = "delta_by_name" /\ IdChange(view.at, old, new)) =>
         ~view.value[series[view.at][new].name].has_out
    /\ view.name = "cycle" =>
         \A i \in 2..Len(series) :
           (IdChange(i, old, new) /\ new \in DOMAIN view.value) =>
             /\ \E k \in DOMAIN view.value[new].rebuilds :
                  view.value[new].rebuilds[k] = i
             /\ \A j \in 2..(i - 1) :
                  (/\ old \in DOMAIN series[j]
                   /\ old \in Producing(series[j - 1], series[j],
                                        series[j][old].name, "out")) =>
                    IsRounded(view.value[new].points[j - 1].out_tb_h,
                              Diff(series[j - 1], series[j], old, "out"))

\* The name deltas of direction dir that the pairs of the series yield for
\* `date`, the date of the later key of each pair: <<later key, name>>.
DeltasOn(date, dir) ==
  {p \in (2..Len(series)) \X {"web", "db"} :
     /\ (p[1] + 1) \div 2 = date
     /\ p[2] \in DOMAIN delta_by_name(series[p[1] - 1], series[p[1]])
     /\ IF dir = "out"
          THEN delta_by_name(series[p[1] - 1], series[p[1]])[p[2]].has_out
          ELSE delta_by_name(series[p[1] - 1], series[p[1]])[p[2]].has_in}

DeltaAt(p, dir) ==
  IF dir = "out" THEN delta_by_name(series[p[1] - 1], series[p[1]])[p[2]].out
  ELSE delta_by_name(series[p[1] - 1], series[p[1]])[p[2]].inb

SumOn(date, dir) == SumOf([p \in DeltasOn(date, dir) |-> DeltaAt(p, dir)])

SumOnFor(date, name, dir) ==
  SumOf([p \in {q \in DeltasOn(date, dir) : q[2] = name} |-> DeltaAt(p, dir)])

LaterDates == {(i + 1) \div 2 : i \in 2..Len(series)}

\* The response has, for `date`, totals equal to the sums of the name deltas
\* of the date, in whole numbers of 0.001 TB, over all names and per name.
DailyRowIs(date) ==
  /\ date \in DOMAIN view.value.days
  /\ view.value.days[date].outbound_tb = SumOn(date, "out")
  /\ view.value.days[date].inbound_tb = SumOn(date, "inb")
  /\ view.value.days[date].outbound_tb % UnitsPerMilliTB = 0
  /\ view.value.days[date].inbound_tb % UnitsPerMilliTB = 0
  /\ \A name \in DOMAIN view.value.servers :
       /\ view.value.servers[name][date].outbound_tb = SumOnFor(date, name, "out")
       /\ view.value.servers[name][date].inbound_tb = SumOnFor(date, name, "inb")

TrackedSum(first, dir) ==
  LET m == merge_hourly_series(series)
      pairs == {p \in ((first + 1)..Len(series)) \X {"web", "db"} :
                  /\ p[2] \in DOMAIN delta_by_name(m[p[1] - 1], m[p[1]])
                  /\ IF dir = "out"
                       THEN delta_by_name(m[p[1] - 1], m[p[1]])[p[2]].has_out
                       ELSE delta_by_name(m[p[1] - 1], m[p[1]])[p[2]].has_in}
  IN  SumOf([p \in pairs |->
               IF dir = "out" THEN delta_by_name(m[p[1] - 1], m[p[1]])[p[2]].out
               ELSE delta_by_name(m[p[1] - 1], m[p[1]])[p[2]].inb])

TrackingIs(start, first) ==
  /\ view.value.start = start
  /\ view.value.outbound_tb = TrackedSum(first, "out")
  /\ view.value.inbound_tb = TrackedSum(first, "inb")

\* C15: the tracking totals are zeros with start None on an empty series;
\* without a start key they are the sums of the deltas of every consecutive
\* pair, with the first key as start; with a start key they are the sums over
\* the pairs from the first stored key >= the start key onward; with a start
\* key newer than every stored key they are zeros anchored at the start key.
C15_TrackingTotals ==
  view.name = "tracking" =>
    LET n == Len(series)
        later == {i \in 1..n : 2 * i >= view.start}
    IN  /\ n = 0 => view.value = [start |-> None, outbound_tb |-> 0, inbound_tb |-> 0]
        /\ n > 0 /\ view.start = None => TrackingIs(2, 1)
        /\ n > 0 /\ view.start # None /\ later = {} =>
             view.value = [start |-> view.start, outbound_tb |-> 0, inbound_tb |-> 0]
        /\ n > 0 /\ view.start # None /\ later # {} =>
             \E first \in later :
               /\ \A i \in later : first <= i
               /\ TrackingIs(view.start, first)

\* A start between the first two of three keys: the first pair has a delta
\* that the totals leave out.
C15_Witness ==
  /\ view.name = "tracking" /\ Len(series) = 3 /\ view.start = 3
  /\ view.value.outbound_tb = UnitsPerMilliTB
  /\ TrackedSum(1, "out") = 2 * UnitsPerMilliTB

\* The outbound delta of server sid for the pair of keys ending at key i.
ServerDelta(sid, i) ==
  LET prev_v == ReadingOf(series[i - 1], sid, "out")
      curr_v == ReadingOf(series[i], sid, "out")
  IN  IF prev_v # None /\ curr_v # None /\ curr_v >= prev_v
        THEN quantize_tb(curr_v - prev_v)
        ELSE 0

\* C16: every server of the cycle view has one point per consecutive pair of
\* keys; the hourly value of a point is the outbound delta of the server for
\* the pair (0.000 without a delta), and its cumulative value is the sum of
\* the hourly values of the points since the most recent rollover, or since
\* the start of the series.
C16_CyclePoints ==
  view.name = "cycle" =>
    \A sid \in DOMAIN view.value :
      LET points == view.value[sid].points
          rebuilds == view.value[sid].rebuilds
          since(k) == Max({1} \cup {r \in 1..k : \E j \in 1..Len(rebuilds) :
                                                   rebuilds[j] = points[r].time})
      IN  /\ Len(points) = Len(series) - 1
          /\ \A k \in 1..Len(points) :
               /\ points[k].out_tb_h = ServerDelta(sid, k + 1)
               /\ points[k].cycle_out_cum_tb =
                    SumOf([r \in since(k)..k |-> points[r].out_tb_h])

\* The pair of keys i - 1 and i shows a lower outbound reading of the server.
Rollover(sid, i) ==
  /\ sid \in DOMAIN series[i - 1] /\ sid \in DOMAIN series[i]
  /\ series[i - 1][sid].out # None /\ series[i][sid].out # None
  /\ series[i][sid].out < series[i - 1][sid].out

\* C28: in the cycle view the rollovers of a server are the later keys of
\* exactly those consecutive pairs where both outbound readings are present
\* and the later is lower; the point of such a pair has age 0 and a cumulative
\* value of 0.000, and the age of every other point is one more than that of
\* the point before it (0 for the first point).
C28_RolloverResets ==
  view.name = "cycle" =>
    \A sid \in DOMAIN view.value :
      LET points == view.value[sid].points
          rebuilds == view.value[sid].rebuilds
      IN  /\ {rebuilds[j] : j \in 1..Len(rebuilds)} =
               {i \in 2..Len(series) : Rollover(sid, i)}
          /\ \A j \in 1..(Len(rebuilds) - 1) : rebuilds[j] < rebuilds[j + 1]
          /\ \A k \in 1..Len(points) :
               IF Rollover(sid, points[k].time)
                 THEN points[k].cycle_age_h = 0 /\ points[k].cycle_out_cum_tb = 0
               ELSE IF k = 1 THEN points[k].cycle_age_h = 0
               ELSE points[k].cycle_age_h = points[k - 1].cycle_age_h + 1

\* After a cumulative 0.002 TB the reading falls: the point of the fall has
\* age 0 and cumulative 0.000 and is the one rollover of the server.
C28_Witness ==
  /\ view.name = "cycle" /\ Len(series) = 3 /\ 1 \in DOMAIN view.value
  /\ view.value[1].rebuilds = <<3>>
  /\ view.value[1].points[1].cycle_out_cum_tb = 2 * UnitsPerMilliTB
  /\ view.value[1].points[2].cycle_age_h = 0
  /\ view.value[1].points[2].cycle_out_cum_tb = 0

\* The outbound reading of the server under the i-th key is there.
HasOut(sid, i) == sid \in DOMAIN series[i] /\ series[i][sid].out # None

\* The keys at which the reading of the server is lower than its previous
\* present reading.
Decreases(sid) ==
  {i \in 2..Len(series) :
     /\ HasOut(sid, i)
     /\ \E j \in 1..(i - 1) :
          /\ HasOut(sid, j)
          /\ \A m \in (j + 1)..(i - 1) : ~HasOut(sid, m)
          /\ series[i][sid].out < series[j][sid].out}

\* C29: the detected rebuilds hold, for every id, the latest key at which its
\* outbound reading is lower than its previous present reading, whatever
\* number of keys without a reading lies between the two, and nothing for an
\* id whose readings never decrease.
C29_LastRebuilds ==
  view.name = "rebuilds" =>
    /\ DOMAIN view.value = {sid \in AggSids : Decreases(sid) # {}}
    /\ \A sid \in DOMAIN view.value :
         view.value[sid] = stored_key(Max(Decreases(sid)))

\* Server 1 falls from 9 to 1 across a key without its reading; server 2
\* never falls.
C29_Witness ==
  /\ view.name = "rebuilds" /\ Len(series) = 3
  /\ HasOut(1, 1) /\ ~HasOut(1, 2) /\ HasOut(1, 3)
  /\ HasOut(2, 1) /\ HasOut(2, 3)
  /\ DOMAIN view.value = {1} /\ view.value[1] = stored_key(3)

\* The answer is a non-empty, strictly ascending list of positive integers.
AscendingPositive(levels) ==
  /\ Len(levels) > 0
  /\ \A i \in 1..Len(levels) : levels[i] > 0
  /\ \A i \in 1..(Len(levels) - 1) : levels[i] < levels[i + 1]

\* The answer lists `valid` when the setting is a list and `valid` is not
\* empty, and the default levels otherwise.
AnswerIs(valid) ==
  IF view.raw.is_list /\ valid # {}
    THEN {view.value[i] : i \in 1..Len(view.value)} = valid
    ELSE view.value = <<80, 90, 95, 100>>

\* The positive integers among the items of the setting.
PositiveIntegers ==
  {view.raw.items[i].value : i \in {k \in 1..Len(view.raw.items) :
     /\ view.raw.items[k].kind \in {"int", "bool"}
     /\ view.raw.items[k].value > 0}}

\* The positive numbers that the items of the setting convert to: integers
\* and booleans as they are, strings of digits as the number they spell,
\* floats without their fraction.
PositiveConverted ==
  LET whole(item) == IF item.kind = "float" THEN item.value \div 10 ELSE item.value
  IN  {whole(view.raw.items[i]) : i \in {k \in 1..Len(view.raw.items) :
         /\ view.raw.items[k].kind \in {"int", "bool", "str", "float"}
         /\ whole(view.raw.items[k]) > 0}}

\* C30 as stated: the effective levels are a non-empty, strictly ascending
\* list of positive integers, namely the integer, positive entries of the
\* configured list when there is one, and the default levels when the setting
\* is no list or has no such entry.
C30_OnlyIntegersKept ==
  view.name = "levels" => AscendingPositive(view.value) /\ AnswerIs(PositiveIntegers)

\* C30: the effective levels are a non-empty, strictly ascending list of
\* positive integers, namely the positive values that the entries of the
\* configured list convert to (a float is cut to its whole part, a string of
\* digits is parsed) when there is one, and the default levels when the
\* setting is no list or no entry converts to a positive value.
C30_ConvertedLevels ==
  view.name = "levels" => AscendingPositive(view.value) /\ AnswerIs(PositiveConverted)

\* A list with the float 85.5 and the string "90" is answered with 85 and 90.
C30_Witness ==
  /\ view.name = "levels" /\ view.raw.is_list
  /\ view.raw.items = <<Item("str", 90), Item("float", 855)>>
  /\ view.value = <<85, 90>>

--------------------------------------------------------------------------
(* Claims about the polling loops *)

\* C20: every polling loop runs forever: its thread never ends, and after
\* whatever happened in an iteration, a failure in the very first one
\* included, the loop reaches its sleep again and again.
C20_LoopsRunForever ==
  \A l \in Loops : [](lpc[l] # "dead") /\ []<>(lpc[l] = "sleep")

\* The entries of `snapshot` that are merged under `name`.
Under(snapshot, name) == {sid \in DOMAIN snapshot : snapshot[sid].name = name}

\* The two snapshots list the same servers under the same names.
SameEntries(prev, curr) ==
  /\ DOMAIN prev = DOMAIN curr
  /\ \A sid \in DOMAIN curr : prev[sid].name = curr[sid].name

\* What the entries named `name` account for between the two snapshots: the
\* increases of the readings that are present at both ends, in TB.
PresentIncrease(prev, curr, name, dir) ==
  LET both == {sid \in Under(curr, name) :
                 /\ ReadingOf(prev, sid, dir) # None
                 /\ ReadingOf(curr, sid, dir) # None
                 /\ ReadingOf(curr, sid, dir) >= ReadingOf(prev, sid, dir)}
  IN  quantize_tb(SumOf([sid \in both |->
                           ReadingOf(curr, sid, dir) - ReadingOf(prev, sid, dir)]))

\* C22: an absent reading is never counted as 0 bytes. On the stored series a
\* name with a single entry has no delta in a direction whose reading is
\* absent at either end of the pair; on the merged series, between two
\* snapshots that list the same servers, the delta of a name is never more
\* than the increase of the readings present at both ends, so a reading that
\* was absent and is present again does not show up as traffic.
C22_AbsentIsNotZero ==
  /\ view.name = "delta_by_name" =>
       \A name \in DOMAIN view.value :
         \A sid \in Under(series[view.at], name) :
           (/\ Under(series[view.at], name) = {sid}
            /\ \/ ReadingOf(series[view.at - 1], sid, "out") = None
               \/ ReadingOf(series[view.at], sid, "out") = None)
             => ~view.value[name].has_out
  /\ (view.name = "merged" /\ SameEntries(series[view.at - 1], series[view.at])) =>
       \A name \in DOMAIN view.value :
         /\ view.value[name].has_out =>
              view.value[name].out
                <= PresentIncrease(series[view.at - 1], series[view.at], name, "out")
         /\ view.value[name].has_in =>
              view.value[name].inb
                <= PresentIncrease(series[view.at - 1], series[view.at], name, "inb")

--------------------------------------------------------------------------
(* Claims about the monitor's pass over the server list *)

\* C21: within a pass, when the monitor is done with a server that is not
\* the last of the list, whatever happened while it was processed (no
\* reading, a notification that failed, a rebuild that failed or raised), the
\* pass goes on with the next listed server.
C21_PassGoesOn ==
  [][(idx > 0 /\ idx < Len(env.servers) /\ idx' # idx) => idx' = idx + 1]_vars

--------------------------------------------------------------------------
(* Claims about what the monitor and the rebuild leave alone *)

\* C31: the monitor is inside a call of _perform_rebuild only for the server
\* of its last poll, and only when in that poll the action was "rebuild", a
\* limit was configured and the fresh reading was at or above it; a pass
\* whose configuration has no limit hands nothing to Telegram, calls no
\* rebuild and leaves the alert state and the pass position as they were.
C31_RebuildOnlyOverLimit ==
  /\ [](pc["mon"] \notin {"idle", "pass"} =>
          /\ poll.called /\ loc["mon"].sid = poll.sid
          /\ poll.cfg.action = "rebuild"
          /\ poll.cfg.limit # None
          /\ poll.out # None /\ poll.out >= poll.cfg.limit)
  /\ [](poll.cfg.limit = None =>
          poll.tried = 0 /\ poll.sent = 0 /\ ~poll.called /\ poll.sid = 0)
  /\ [][(pc["mon"] = "idle" /\ poll'.cfg # NoCfg /\ poll'.cfg.limit = None) =>
          /\ pc' = pc /\ loc' = loc /\ idx' = idx /\ cfg' = cfg
          /\ ALERT_STATE' = ALERT_STATE /\ notified' = notified
          /\ REBUILD_LOCKS' = REBUILD_LOCKS]_vars

\* The monitor has started a rebuild on a reading above the limit.
C31_Witness ==
  /\ pc["mon"] = "acquire" /\ poll.called
  /\ poll.cfg.action = "rebuild" /\ poll.cfg.limit = LimitBytes
  /\ poll.out > LimitBytes

\* The server whose entry the monitor is working on.
MonitorsServer ==
  IF pc["mon"] = "pass" THEN env.servers[idx] ELSE loc["mon"].sid

\* C32: an entry of ALERT_STATE changes only in a step of the monitor, either
\* the poll of that server or the return of the rebuild the monitor called
\* for it, and in no step of the bot or of the HTTP handler; from the poll
\* that calls _perform_rebuild to the return of that call, while the bot and
\* the handler run their own rebuilds, no entry changes.
C32_OnlyMonitorWrites ==
  /\ [][ALERT_STATE' # ALERT_STATE =>
          /\ pc["mon"] \in {"pass", "ret"} /\ pc'["mon"] \in {"pass", "idle", "acquire"}
          /\ \A p \in Procs \ {"mon"} : pc'[p] = pc[p] /\ loc'[p] = loc[p]
          /\ \A sid \in ServerIds : AlertOf(sid)' # AlertOf(sid) => sid = MonitorsServer]_vars
  /\ [][pc["mon"] \notin {"idle", "pass", "ret"} => ALERT_STATE' = ALERT_STATE]_vars

\* The monitor has written the entry of a server while the bot is in the
\* middle of a rebuild of that server.
C32_Witness ==
  /\ pc["bot"] = "create" /\ pc["mon"] = "acquire"
  /\ loc["bot"].sid = poll.sid /\ poll.sid \in DOMAIN ALERT_STATE
  /\ ALERT_STATE[poll.sid].last_outgoing = poll.out

\* The poll of sid has a reading that still reaches the level the last poll
\* of sid left undelivered.
OwedLevelStill(sid) ==
  /\ PollStep /\ poll'.sid = sid /\ poll'.out # None
  /\ poll.owed # 0 /\ poll.owed_sid = sid
  /\ poll'.out * 100 >= poll.owed * LimitBytes

\* C33 (as the code has it): last_level of a server rises only in a poll of
\* that server, to the level whose notification that poll delivered; a poll
\* that delivers nothing leaves last_level at the value the poll compared
\* against (0 after a rollback, the stored value otherwise); and when the next
\* poll with a reading still reaches the undelivered level and that level is
\* still configured, it hands the notification of the highest level it
\* reaches, which is that level or a higher one, to Telegram if notifications
\* are enabled, and the level stays owed while nothing is delivered.
C33_LevelRaisedOnDelivery ==
  [][\A sid \in ServerIds :
      /\ AlertOf(sid)'.last_level > AlertOf(sid).last_level =>
           /\ PollStep /\ poll'.sid = sid
           /\ poll'.sent # 0 /\ poll'.sent = AlertOf(sid)'.last_level
      /\ (PollStep /\ poll'.sid = sid /\ poll'.out # None /\ poll'.sent = 0) =>
           AlertOf(sid)'.last_level = LevelAtCheck(sid)
      /\ (OwedLevelStill(sid) /\ poll.owed \in cfg.levels) =>
           /\ Max(ReachedBy(poll'.out)) >= poll.owed
           /\ poll'.tried = IF cfg.enabled THEN Max(ReachedBy(poll'.out)) ELSE 0
           /\ poll'.sent = 0 => poll'.owed = Max(ReachedBy(poll'.out))]_vars

\* A reading of 85% had left last_level at 0; the next poll reads 85% again
\* and delivers level 80.
C33_Witness ==
  /\ poll.sid \in DOMAIN ALERT_STATE
  /\ poll.cfg.levels = {80, 90, 95, 100}
  /\ poll.prev = 85 /\ poll.level = 0 /\ poll.out = 85
  /\ poll.tried = 80 /\ poll.sent = 80
  /\ ALERT_STATE[poll.sid].last_level = 80

\* C33 (as stated): last_level rises only to a level delivered in that poll;
\* a poll that delivers nothing leaves the stored last_level unchanged, and
\* the next poll whose reading still reaches the undelivered level attempts
\* the notification of that same level.
C33_SameLevelAgain ==
  [][\A sid \in ServerIds :
      /\ AlertOf(sid)'.last_level > AlertOf(sid).last_level =>
           /\ PollStep /\ poll'.sid = sid
           /\ poll'.sent # 0 /\ poll'.sent = AlertOf(sid)'.last_level
      /\ (PollStep /\ poll'.sid = sid /\ poll'.out # None /\ poll'.sent = 0) =>
           AlertOf(sid)'.last_level = AlertOf(sid).last_level
      /\ OwedLevelStill(sid) => poll'.tried = poll.owed]_vars

\* C34: a call of _perform_rebuild that finds the lock held returns the
\* 'rebuild in progress' result in that very step: it has sent neither
\* notification, resolved no image, deleted and created nothing and made no
\* DNS update; the step and the return of the call leave the locks and the
\* alert state as they are, the lock stays with the running call, and the
\* running call is where it was.
C34_RejectedCallDoesNothing ==
  /\ [](\A p \in LockProcs :
          loc[p].result = "in_progress" =>
            /\ pc[p] = "ret"
            /\ loc[p] = [NoLoc EXCEPT !.sid = loc[p].sid, !.result = "in_progress",
                                      !.success = "false"])
  /\ [][\A p \in LockProcs :
          /\ (pc[p] = "acquire" /\ loc'[p].result = "in_progress") =>
               /\ LockOf(loc[p].sid) = Other(p) /\ Running(Other(p), loc[p].sid)
               /\ REBUILD_LOCKS' = REBUILD_LOCKS /\ ALERT_STATE' = ALERT_STATE
               /\ pc'[Other(p)] = pc[Other(p)] /\ loc'[Other(p)] = loc[Other(p)]
          /\ (loc[p].result = "in_progress" /\ pc'[p] # pc[p]) =>
               REBUILD_LOCKS' = REBUILD_LOCKS /\ ALERT_STATE' = ALERT_STATE]_vars

\* The monitor's call was rejected while the bot's rebuild of the same server
\* is at its DNS step and holds the lock.
C34_Witness ==
  /\ pc["mon"] = "ret" /\ loc["mon"].result = "in_progress"
  /\ loc["mon"].start = "none"
  /\ pc["bot"] = "dns" /\ loc["bot"].sid = loc["mon"].sid
  /\ LockOf(loc["mon"].sid) = "bot"

\* C35: a poll that gets no reading for a server leaves every entry of the
\* alert state as it is (so the stored last_outgoing is what the next reading
\* is compared with), hands nothing to Telegram, calls no rebuild and records
\* no rollback; the pass goes on or ends.
C35_NoReadingNoChange ==
  /\ [][(PollStep /\ poll'.out = None) =>
          /\ ALERT_STATE' = ALERT_STATE
          /\ poll'.tried = 0 /\ poll'.sent = 0 /\ ~poll'.called
          /\ notified' = notified /\ reset_from' = reset_from
          /\ loc' = loc /\ REBUILD_LOCKS' = REBUILD_LOCKS
          /\ pc'["mon"] \in {"pass", "idle"}]_vars
  /\ [](\A sid \in DOMAIN ALERT_STATE :
          ALERT_STATE[sid].last_outgoing # None /\ ALERT_STATE[sid].last_outgoing >= 0)

\* After level 95 was delivered at 96%, a poll without a reading has left the
\* entry of the server as it was.
C35_Witness ==
  /\ poll.sid \in DOMAIN ALERT_STATE /\ poll.out = None
  /\ poll.prev = 96 /\ poll.level = 95
  /\ ALERT_STATE[poll.sid].last_outgoing = 96
  /\ ALERT_STATE[poll.sid].last_level = 95

\* C36: a call of _perform_rebuild issues at most CreateAttempts create
\* requests and at most DnsAttempts DNS updates, and when it has ended it has
\* returned a result with success true or false.
C36_BoundedStructuredResult ==
  \A p \in LockProcs :
    /\ loc[p].creates <= CreateAttempts
    /\ pc[p] = "create" => loc[p].tries < CreateAttempts
    /\ pc[p] = "dns" => loc[p].tries < DnsAttempts
    /\ pc[p] = "ret" => loc[p].success \in {"true", "false"}

--------------------------------------------------------------------------
(* Claims about the report schedules and the command intake *)

\* The marker each report of a date is guarded by.
MarkerOf(report) ==
  IF report = "daily" THEN SCHEDULE_STATE.last_daily_report ELSE last_sent[report]

\* C37: a scheduled report is handed to the notification channel at most
\* once per date and report time, however often its loop wakes in the
\* minute; and a marker takes a date only in the step that built the report
\* of that date and handed it to the channel.
C37_OncePerDate ==
  /\ [](\A key \in Reports \X Dates : handed[key] <= 1)
  /\ [][\A report \in Reports :
          MarkerOf(report)' # MarkerOf(report)
            => /\ MarkerOf(report)' \in Dates
               /\ handed'[<<report, MarkerOf(report)'>>]
                    = handed[<<report, MarkerOf(report)'>>] + 1]_vars

\* Both loops have woken again in the minute of a report they sent on this
\* date: the daily loop is at its check and the report thread at its own,
\* each with the marker on the date it reads.
C37_Witness ==
  /\ lpc["daily"] = "check" /\ strftime(wall) \in DailyTimes
  /\ SCHEDULE_STATE.last_daily_report = wall.date
  /\ handed[<<"daily", wall.date>>] = 1
  /\ lpc["report"] = "report" /\ lnow["report"] = wall
  /\ strftime(wall) \in Targets
  /\ last_sent[strftime(wall)] = wall.date
  /\ handed[<<strftime(wall), wall.date>>] = 1
  /\ wall.date = MaxDate

\* C38: the command of an update is executed at most once, and when it is
\* executed the stored offset is already past the update, so that an update
\* whose command raised is not in the answer of any later getUpdates.
C38_HandledAtMostOnce ==
  /\ [](\A update_id \in 1..MaxUpdates : executed[update_id].runs <= 1)
  /\ [][\A update_id \in 1..MaxUpdates :
          executed'[update_id].runs > executed[update_id].runs
            => /\ BOT_STATE.update_offset > update_id
               /\ LET result == getUpdates(BOT_STATE.update_offset)
                  IN  \A i \in DOMAIN result :
                        result[i].update_id # update_id]_vars

\* The command of the first update raised, which dropped the rest of that
\* answer, and the command of the second update has been executed since,
\* out of a later answer.
C38_Witness ==
  /\ executed[1] = [runs |-> 1, replies |-> 0]
  /\ executed[2].runs = 1
  /\ BOT_STATE.update_offset = 3

\* The chat ids under which the configuration lets commands in.
ConfiguredChats == {strip(chat_str(setting)) : setting \in ChatSettings} \ {<< >>}

\* C39: a command is executed and replied to only for the update the loop
\* is at, when that is a message whose chat id is the chat_id of the
\* configuration loaded in this iteration; an update of a chat that is not
\* configured is neither executed nor replied to.
C39_OnlyConfiguredChat ==
  /\ [](lpc["bot"] \in {"poll", "handle", "command"}
          => batch.chat_id \in ConfiguredChats)
  /\ [](\A update_id \in DOMAIN inbox :
          chat_str(IntValue(inbox[update_id].chat)) \notin ConfiguredChats
            => executed[update_id] = [runs |-> 0, replies |-> 0])
  /\ [][\A update_id \in 1..MaxUpdates :
          executed'[update_id] # executed[update_id]
            => /\ batch.update = inbox[update_id]
               /\ batch.update.message
               /\ chat_str(IntValue(batch.update.chat)) = batch.chat_id]_vars

\* Commands of two other chats were passed over, their offsets consumed
\* without a run or a reply, and the owner's command behind them was
\* executed and replied to.
C39_Witness ==
  /\ Len(inbox) = 3
  /\ inbox[1] = [update_id |-> 1, message |-> TRUE, chat |-> 77,
                  text |-> "/rebuild web"]
  /\ inbox[2] = [update_id |-> 2, message |-> TRUE, chat |-> -7,
                  text |-> "/rebuild web"]
  /\ inbox[3].chat = 7
  /\ executed[1] = [runs |-> 0, replies |-> 0]
  /\ executed[2] = [runs |-> 0, replies |-> 0]
  /\ executed[3] = [runs |-> 1, replies |-> 1]
  /\ BOT_STATE.update_offset = 4

====
